---------------------------- MODULE Spec2Model ----------------------------
(***************************************************************************)
(* A model of the scheduler/coordination core of cogno                     *)
(* (src/src/continuous_mind.rs, src/src/main.rs): the TaskScheduler, the   *)
(* Activity Journal (spontaneous_thoughts), the error tracker and the      *)
(* background loops with the locks they take.                              *)
(*                                                                         *)
(* Numbers: priorities are in tenths (0.3 -> 3), intensities and activity  *)
(* levels in hundredths (0.95 -> 95), the wall clock in whole minutes      *)
(* (recency_score truncates the age to minutes), relevance in 1/3000.      *)
(***************************************************************************)
EXTENDS Integers, Sequences, FiniteSets, TLC

VARIABLES
    pending_tasks,      \* TaskScheduler.pending_tasks: Seq of [task, at]
    running_tasks,      \* TaskScheduler.running_tasks
    completed_tasks,    \* TaskScheduler.completed_tasks
    instant,            \* the monotonic clock Instant::now() stamps entries with
    next_result,        \* what the latest get_next_task call returned
    spontaneous_thoughts, \* the Activity Journal: Seq of MentalActivity
    utc_now,            \* Utc::now(), in minutes
    inserted,           \* (history) how many activities have been pushed
    pushed,             \* (history) the activity pushed last
    recent_result,      \* what the latest get_recent_thoughts call returned
    pc,                 \* where each task stands (see Procs)
    lock_holder,        \* who holds each lock, "free" when nobody does
    error_count,        \* ContinuousMind.error_count
    mental_activity_level, \* ContinuousMind.mental_activity_level
    health_seen,        \* monitor_system_health's locals, per caller
    gen_thought,        \* generate_enhanced_spontaneous_thought's local thought
    containers,         \* each container's state: the mutations applied to it
    held_copy,          \* what a task holding a container read on locking it
    followups,          \* process_pending_thoughts' local thoughts_needing_followup
    commit_result,      \* how the latest commit of an appraised emotion ended
    attempts,           \* (history) the try_lock calls made on each container
    goals,              \* GoalSystem.goals: Seq of Goal, the id is the position
    current_focus,      \* GoalSystem.current_focus: 0 (None) or a goal id
    achievement_history, \* GoalSystem.achievement_history: the ids completed
    form_result,        \* what the latest form_goal call returned: 0 (None) or an id
    primary_focus,      \* AttentionSystem.primary_focus, NoFocus for None
    background_attention, \* AttentionSystem.background_attention
    attention_history,  \* AttentionSystem.attention_history: its length
    current_state,      \* AffectiveCore.current_state, in hundredths
    emotional_history,  \* AffectiveCore.emotional_history: the emotions' names
    mutations,          \* (history) how many affect mutations have been made
    metacog_state,      \* MetacognitiveMonitor.state, in thousandths
    self_reflections,   \* recent_occurrences of the pattern "self_reflection"
    meta_mutations,     \* (history) how many metacognition mutations were made
    error_recoveries,   \* recent_occurrences of the pattern "error_recovery"
    reflection_triggers, \* last_triggered of each reflection trigger, in seconds
    reflection_queue,   \* MetacognitiveMonitor.reflection_queue
    monitor_now,        \* Utc::now() as the monitor reads it, in seconds
    pending_actions,    \* ContinuousMind.pending_actions
    actions_guard,      \* who holds the write guard of pending_actions
    drain_pc,           \* where each get_pending_actions call stands
    drain_result,       \* get_pending_actions' local result, per caller
    returned,           \* (history) the actions returned to each caller
    queued,             \* (history) how many actions have been pushed
    last_error_time,    \* ContinuousMind.last_error_time, NoInstant for None
    error_types,        \* ContinuousMind.error_types: the failures' categories
    selection,          \* select_enhanced_thought_type's arguments and result
    last_memory_consolidation \* ContinuousMind.last_memory_consolidation

schedVars == <<pending_tasks, running_tasks, completed_tasks, instant, next_result>>

journalVars == <<spontaneous_thoughts, utc_now, inserted, pushed, recent_result>>

tickVars == <<containers, held_copy, followups, commit_result, attempts>>

goalVars == <<goals, current_focus, achievement_history, form_result>>

attnVars == <<primary_focus, background_attention, attention_history>>

affectVars == <<current_state, emotional_history, mutations>>

metaVars == <<metacog_state, self_reflections, meta_mutations, error_recoveries,
              reflection_triggers, reflection_queue, monitor_now>>

drainVars == <<pending_actions, actions_guard, drain_pc, drain_result,
               returned, queued>>

errVars == <<last_error_time, error_types>>

selVars == <<selection>>

consVars == <<last_memory_consolidation>>

\* the components behind the containers, and the list of pending actions
compVars == <<goalVars, attnVars, affectVars, metaVars, drainVars, selVars,
              consVars>>

sysVars == <<pc, lock_holder, error_count, mental_activity_level,
             health_seen, gen_thought, tickVars, compVars, errVars>>

\* the scheduler, the journal and the tasks
coreVars == <<schedVars, journalVars, pc, lock_holder, error_count,
              mental_activity_level, health_seen, gen_thought, tickVars, errVars,
              selVars, consVars>>

vars == <<pending_tasks, running_tasks, completed_tasks, instant, next_result,
          spontaneous_thoughts, utc_now, inserted, pushed, recent_result,
          pc, lock_holder, error_count, mental_activity_level,
          health_seen, gen_thought,
          containers, held_copy, followups, commit_result, attempts,
          goals, current_focus, achievement_history, form_result,
          primary_focus, background_attention, attention_history,
          current_state, emotional_history, mutations,
          metacog_state, self_reflections, meta_mutations, error_recoveries,
          reflection_triggers, reflection_queue, monitor_now,
          pending_actions, actions_guard, drain_pc, drain_result,
          returned, queued,
          last_error_time, error_types, selection, last_memory_consolidation>>

-----------------------------------------------------------------------------
(* Bounds of the exploration.                                              *)

\* schedule_task calls explored by SpecSched
MaxTasks == 4

\* SpecSchedLong: the first QuietTasks tasks are scheduled one at a time, each
\* on an idle scheduler, so that completed_tasks fills up; FreeTasks more
\* schedule_task calls then come in any order.
QuietTasks == 51

FreeTasks == 2

\* SpecJournal: the first QuietThoughts activities are the same low-intensity
\* thought pushed at minute 0, so that the journal fills up; FreeThoughts more
\* pushes then come from either path with any of the explored intensities,
\* with at most MaxTicks advances of the clock in between.
QuietThoughts == 98

FreeThoughts == 4

MaxTicks == 1

-----------------------------------------------------------------------------
(* BackgroundTask and TaskScheduler.                                       *)

TaskKinds == {"DeepReflection", "GoalReassessment", "EmotionalRegulation",
              "AttentionUpdate", "SpontaneousThought", "ErrorRecovery",
              "MemoryConsolidation", "SystemHealthCheck", "CreativeIncubation",
              "SocialContextAnalysis"}

\* A BackgroundTask value: only ErrorRecovery carries a payload.
Task(k, a) == [kind |-> k, arg |-> a]

\* Option<BackgroundTask>
None == [some |-> FALSE, task |-> Task("", "")]
Some(t) == [some |-> TRUE, task |-> t]

\* BackgroundTask::priority, in tenths
priority(t) ==
    CASE t.kind = "ErrorRecovery"         -> 10
      [] t.kind = "EmotionalRegulation"   -> 9
      [] t.kind = "DeepReflection"        -> 8
      [] t.kind = "SystemHealthCheck"     -> 7
      [] t.kind = "GoalReassessment"      -> 6
      [] t.kind = "AttentionUpdate"       -> 5
      [] t.kind = "MemoryConsolidation"   -> 4
      [] t.kind = "SpontaneousThought"    -> 3
      [] t.kind = "CreativeIncubation"    -> 3
      [] t.kind = "SocialContextAnalysis" -> 2

max_concurrent == 3

\* completed_tasks keeps at most this many entries
completed_cap == 50

\* pending_tasks.sort_by(|a, b| b.priority().partial_cmp(&a.priority())):
\* slice::sort_by is stable, so an entry ends up behind the entries of higher
\* priority and behind the earlier entries of its own priority. (SortSeq is
\* an insertion sort that moves an element only past elements it strictly
\* precedes: stable.)
SortByPriority(s) ==
    SortSeq(s, LAMBDA a, b : priority(a.task) > priority(b.task))

\* (mutation) a completion that finds no running entry of the kind takes the
\* first running entry instead
running_position_or_first(run, t) ==
    LET hits == {i \in 1..Len(run) : run[i].task.kind = t.kind}
    IN  IF hits = {} THEN (IF run = <<>> THEN 0 ELSE 1)
        ELSE CHOOSE i \in hits : \A j \in hits : i <= j

\* (mutation) a completion that takes the last running entry of the kind
running_position_last(run, t) ==
    LET hits == {i \in 1..Len(run) : run[i].task.kind = t.kind}
    IN  IF hits = {} THEN 0 ELSE CHOOSE i \in hits : \A j \in hits : i >= j

\* (mutation) a completed buffer that never evicts
push_completed_uncapped(done, e) == Append(done, e)

\* (mutation) get_next_task dispatching only onto an idle scheduler
can_dispatch_idle(pend, run) == run = <<>> /\ pend # <<>>

\* (mutation) schedule_task inserting at the front before the sort
schedule_task_front(pend, t, at) ==
    SortByPriority(<<[task |-> t, at |-> at]>> \o pend)

\* (mutation) schedule_task without the sort
schedule_task_unsorted(pend, t, at) ==
    Append(pend, [task |-> t, at |-> at])

\* schedule_task: the new pending sequence
schedule_task(pend, t, at) ==
    SortByPriority(Append(pend, [task |-> t, at |-> at]))

\* (mutation) get_next_task without the concurrency cap
can_dispatch_uncapped(pend, run) ==
    pend # <<>>

\* get_next_task's condition for dispatching
can_dispatch(pend, run) ==
    Len(run) < max_concurrent /\ pend # <<>>

\* Vec::remove(pos)
RemoveAt(s, pos) == SubSeq(s, 1, pos - 1) \o SubSeq(s, pos + 1, Len(s))

\* running_tasks.iter().position(same discriminant): 0 when there is none
running_position(run, t) ==
    LET hits == {i \in 1..Len(run) : run[i].task.kind = t.kind}
    IN  IF hits = {} THEN 0 ELSE CHOOSE i \in hits : \A j \in hits : i <= j

\* (mutation) a full completed buffer refuses the new entry
push_completed_refuse(done, e) ==
    IF Len(done) >= completed_cap THEN done ELSE Append(done, e)

\* completed_tasks after pushing e: oldest dropped beyond the cap
push_completed(done, e) ==
    LET d == Append(done, e)
    IN  IF Len(d) > completed_cap THEN Tail(d) ELSE d

\* (mutation) a completion that records the entry and leaves it running
complete_task_leaves_running(run, done, t) ==
    LET pos == running_position(run, t)
    IN  IF pos # 0
        THEN [running |-> run, completed |-> push_completed(done, run[pos])]
        ELSE [running |-> run, completed |-> done]

\* complete_task as a function of the scheduler state: the first running
\* entry of t's kind, if there is one, moves to completed_tasks
complete_task(run, done, t) ==
    LET pos == running_position(run, t)
    IN  IF pos # 0
        THEN [running |-> RemoveAt(run, pos),
              completed |-> push_completed(done, run[pos])]
        ELSE [running |-> run, completed |-> done]

-----------------------------------------------------------------------------
(* MentalActivity and the Activity Journal.                                *)

\* A MentalActivity; ins is not a field of the struct: it numbers the pushes.
Activity(th, i, ts, by, n) ==
    [thought |-> th, intensity |-> i, timestamp |-> ts, triggered_by |-> by,
     ins |-> n]

NoActivity == Activity("", 0, 0, "", 0)

\* The journal is truncated when it grows beyond journal_cap entries ...
journal_cap == 100

\* ... to journal_keep entries.
journal_keep == 50

\* Activities lose their recency over this many minutes.
recency_window == 30

Max(a, b) == IF a >= b THEN a ELSE b

\* MentalActivity::recency_score, in 1/30: (1 - age_minutes / 30).max(0)
recency_score(a, now) == Max(recency_window - (now - a.timestamp), 0)

\* MentalActivity::relevance_score, in 1/3000:
\* intensity * 0.7 + recency_score * 0.3
relevance_score(a, now) == 21 * a.intensity + 30 * recency_score(a, now)

\* MentalActivity::needs_follow_up: intensity > 0.7 && recency_score > 0.5
needs_follow_up(a, now) ==
    a.intensity > 70 /\ 2 * recency_score(a, now) > recency_window

\* thoughts.sort_by(|a, b| b.relevance_score().partial_cmp(&a.relevance_score())):
\* the stable descending sort, every score taken at the same minute now.
SortByRelevance(s, now) ==
    SortSeq(s, LAMBDA a, b : relevance_score(a, now) > relevance_score(b, now))

\* (mutation) truncation without the sort
generate_store_unsorted(thoughts, a, now) ==
    LET t == Append(thoughts, a)
    IN  IF Len(t) > journal_cap THEN SubSeq(t, 1, journal_keep) ELSE t

\* generate_enhanced_spontaneous_thought, "Store the thought": push, then
\* beyond 100 entries sort by relevance and keep the top 50
generate_store(thoughts, a, now) ==
    LET t == Append(thoughts, a)
    IN  IF Len(t) > journal_cap
        THEN SubSeq(SortByRelevance(t, now), 1, journal_keep)
        ELSE t

\* (mutation) a push that never truncates
add_store_unbounded(thoughts, a, now) ==
    Append(thoughts, a)

\* add_spontaneous_thought: push, then beyond 100 entries sort by relevance
\* and keep the top 50
add_store(thoughts, a, now) ==
    LET t == Append(thoughts, a)
    IN  IF Len(t) > journal_cap
        THEN SubSeq(SortByRelevance(t, now), 1, journal_keep)
        ELSE t

\* get_recent_thoughts: thoughts.iter().rev().take(count)
get_recent_thoughts(thoughts, count) ==
    LET n == IF count < Len(thoughts) THEN count ELSE Len(thoughts)
    IN  [i \in 1..n |-> thoughts[Len(thoughts) + 1 - i]]

\* The journal's operations as actions on the journal state. Each holds the
\* journal's write lock from the push to the end of the truncation.

\* generate_enhanced_spontaneous_thought's push of a thought of kind th with
\* the intensity i it read from mental_activity_level
StoreGenerated(th, i) ==
    LET a == Activity(th, i, utc_now, "natural mental activity", inserted + 1)
    IN  /\ spontaneous_thoughts' = generate_store(spontaneous_thoughts, a, utc_now)
        /\ pushed' = a
        /\ inserted' = inserted + 1
        /\ recent_result' = <<>>
        /\ UNCHANGED utc_now

AddSpontaneousThought(th, i) ==
    LET a == Activity(th, i, utc_now, "system_generated", inserted + 1)
    IN  /\ spontaneous_thoughts' = add_store(spontaneous_thoughts, a, utc_now)
        /\ pushed' = a
        /\ inserted' = inserted + 1
        /\ recent_result' = <<>>
        /\ UNCHANGED utc_now

GetRecentThoughts(count) ==
    /\ recent_result' = <<count, get_recent_thoughts(spontaneous_thoughts, count)>>
    /\ UNCHANGED <<spontaneous_thoughts, utc_now, inserted, pushed>>

\* the wall clock advances by d minutes
ClockAdvance(d) ==
    /\ utc_now' = utc_now + d
    /\ recent_result' = <<>>
    /\ UNCHANGED <<spontaneous_thoughts, inserted, pushed>>

-----------------------------------------------------------------------------
(* The scheduler's three operations as actions on the scheduler state.     *)

ScheduleTask(t) ==
    /\ pending_tasks' = schedule_task(pending_tasks, t, instant)
    /\ instant' = instant + 1
    /\ UNCHANGED <<running_tasks, completed_tasks, next_result>>

GetNextTask ==
    IF can_dispatch(pending_tasks, running_tasks)
    THEN /\ running_tasks' = Append(running_tasks, Head(pending_tasks))
         /\ pending_tasks' = Tail(pending_tasks)
         /\ next_result' = Some(Head(pending_tasks).task)
         /\ UNCHANGED <<completed_tasks, instant>>
    ELSE /\ next_result' = None
         /\ UNCHANGED <<pending_tasks, running_tasks, completed_tasks, instant>>

CompleteTask(t) ==
    LET r == complete_task(running_tasks, completed_tasks, t)
    IN  /\ running_tasks' = r.running
        /\ completed_tasks' = r.completed
        /\ UNCHANGED <<pending_tasks, instant, next_result>>

-----------------------------------------------------------------------------
(* The tasks that share the scheduler, the journal and the locks.          *)
(*                                                                         *)
(* A step runs a task from one suspension point to the next. The           *)
(* suspension points kept are the timer waits ("idle"), the waits for the  *)
(* task_scheduler lock (tokio::sync::Mutex: lock().await queues the caller *)
(* until the guard is dropped, also when the caller itself holds it) and   *)
(* the awaits on the LLM. The containers are std::sync::Mutex taken with   *)
(* try_lock; their contents are not modelled.                              *)

\* run_main_loop, run_background_thoughts, run_task_scheduler,
\* run_system_monitoring, run_memory_consolidation and the interactive session
Procs == {"main", "thoughts", "dispatch", "monitor", "consolidation", "user"}

ContainerLocks == {"affective_core", "metacognition", "goal_system",
                   "attention_system"}

Locks == ContainerLocks \cup {"task_scheduler"}

\* monitor_system_health escalates above this error_count ...
error_threshold == 5

\* ... and asks for regulation above this activity level.
activity_threshold == 90

\* analyze_thought_patterns looks at journals of at least this many entries,
pattern_min_thoughts == 5

\* with at least this many recent entries
pattern_min_recent == 3

\* whose average intensity exceeds this.
pattern_intensity == 70

\* update_comprehensive_mental_state: activity * 0.8 + base_activity * 0.2,
\* clamped to [0.1, 1.0]; hundredths, rounded down
smooth_activity(level, base) ==
    LET v == (8 * level + 2 * base) \div 10
    IN  IF v < 10 THEN 10 ELSE IF v > 100 THEN 100 ELSE v

\* The pc values at which a task waits in task_scheduler.lock().await
SchedulerWaits == {"lock", "follow_up", "health_errors", "health_activity",
                   "status"}

\* The pc values at which a task awaits an LLM call
LlmAwaits == {"llm", "appraise", "reflect"}

SumIntensity(set) ==
    LET RECURSIVE Sum(_)
        Sum(S) == IF S = {} THEN 0
                  ELSE LET x == CHOOSE y \in S : TRUE
                       IN  x.intensity + Sum(S \ {x})
    IN  Sum(set)

\* analyze_thought_patterns' condition for asking for a health check
high_activity_pattern(thoughts, now) ==
    LET recent == {i \in 1..Len(thoughts) :
                      10 * recency_score(thoughts[i], now) > 3 * recency_window}
        sum == SumIntensity({[i |-> i, intensity |-> thoughts[i].intensity] :
                                i \in recent})
    IN  /\ Len(thoughts) >= pattern_min_thoughts
        /\ Cardinality(recent) >= pattern_min_recent
        /\ sum > pattern_intensity * Cardinality(recent)

\* The follow-up task generate_enhanced_spontaneous_thought schedules
follow_up_task(th) ==
    CASE th = "SelfReflection"   -> Some(Task("DeepReflection", ""))
      [] th = "CreativeInsight"  -> Some(Task("CreativeIncubation", ""))
      [] th = "GoalReassessment" -> Some(Task("GoalReassessment", ""))
      [] OTHER                   -> None

\* run_main_loop's update_comprehensive_mental_state; a tick that finds the
\* affect or the metacognition container taken changes nothing.
UpdateMentalState(base) ==
    /\ lock_holder["affective_core"] = "free"
    /\ lock_holder["metacognition"] = "free"
    /\ mental_activity_level' = smooth_activity(mental_activity_level, base)
    /\ UNCHANGED <<compVars, errVars, tickVars, schedVars, journalVars, pc, lock_holder, error_count,
                   health_seen, gen_thought>>

\* --- run_background_thoughts --------------------------------------------

\* should_generate_thought says no: the tick goes on to the pattern analysis
ThoughtsNotDue ==
    /\ pc["thoughts"] = "idle"
    /\ pc' = [pc EXCEPT !["thoughts"] = "analyze"]
    /\ UNCHANGED <<compVars, errVars, tickVars, schedVars, journalVars, lock_holder, error_count,
                   mental_activity_level, health_seen, gen_thought>>

\* generate_enhanced_spontaneous_thought up to its follow-up: without the
\* affect and metacognition snapshots it returns at once; otherwise it stores
\* a thought of kind th (select_enhanced_thought_type reads the snapshots)
\* and, when the thought needs follow-up, goes on to wait for the scheduler.
ThoughtsGenerate(th) ==
    /\ pc["thoughts"] = "idle"
    /\ IF lock_holder["affective_core"] = "free"
          /\ lock_holder["metacognition"] = "free"
       THEN /\ StoreGenerated(th, mental_activity_level)
            /\ gen_thought' = th
            /\ pc' = [pc EXCEPT !["thoughts"] =
                        IF needs_follow_up(pushed', utc_now)
                        THEN "follow_up" ELSE "analyze"]
       ELSE /\ pc' = [pc EXCEPT !["thoughts"] = "analyze"]
            /\ UNCHANGED <<journalVars, gen_thought>>
    /\ UNCHANGED <<compVars, errVars, tickVars, schedVars, lock_holder, error_count, mental_activity_level,
                   health_seen>>

\* the follow-up block once task_scheduler.lock().await returns: the task for
\* the thought's kind is scheduled, if the kind has one, and the guard dropped
ThoughtsFollowUp ==
    /\ pc["thoughts"] = "follow_up"
    /\ lock_holder["task_scheduler"] = "free"
    /\ IF follow_up_task(gen_thought).some
       THEN ScheduleTask(follow_up_task(gen_thought).task)
       ELSE UNCHANGED schedVars
    /\ pc' = [pc EXCEPT !["thoughts"] = "analyze"]
    /\ UNCHANGED <<compVars, errVars, tickVars, journalVars, lock_holder, error_count,
                   mental_activity_level, health_seen, gen_thought>>

\* analyze_thought_patterns: try_lock on the scheduler, skipped when taken
ThoughtsAnalyze ==
    /\ pc["thoughts"] = "analyze"
    /\ IF high_activity_pattern(spontaneous_thoughts, utc_now)
          /\ lock_holder["task_scheduler"] = "free"
       THEN ScheduleTask(Task("SystemHealthCheck", ""))
       ELSE UNCHANGED schedVars
    /\ pc' = [pc EXCEPT !["thoughts"] = "idle"]
    /\ UNCHANGED <<compVars, errVars, tickVars, journalVars, lock_holder, error_count,
                   mental_activity_level, health_seen, gen_thought>>

\* --- run_task_scheduler: process_scheduled_tasks --------------------------

\* the tick: task_scheduler.lock().await is reached
DispatchTick ==
    /\ pc["dispatch"] = "idle"
    /\ pc' = [pc EXCEPT !["dispatch"] = "lock"]
    /\ UNCHANGED <<compVars, errVars, tickVars, schedVars, journalVars, lock_holder, error_count,
                   mental_activity_level, health_seen, gen_thought>>

\* the lock is granted; the guard lives until process_scheduled_tasks returns
DispatchAcquire ==
    /\ pc["dispatch"] = "lock"
    /\ lock_holder["task_scheduler"] = "free"
    /\ lock_holder' = [lock_holder EXCEPT !["task_scheduler"] = "dispatch"]
    /\ pc' = [pc EXCEPT !["dispatch"] = "loop"]
    /\ UNCHANGED <<compVars, errVars, tickVars, schedVars, journalVars, error_count,
                   mental_activity_level, health_seen, gen_thought>>

\* while let Some(task) = scheduler.get_next_task(): on None the function
\* returns and the guard is dropped
DispatchNext ==
    /\ pc["dispatch"] = "loop"
    /\ GetNextTask
    /\ IF next_result'.some
       THEN /\ pc' = [pc EXCEPT !["dispatch"] = "handler"]
            /\ UNCHANGED lock_holder
       ELSE /\ pc' = [pc EXCEPT !["dispatch"] = "idle"]
            /\ lock_holder' = [lock_holder EXCEPT !["task_scheduler"] = "free"]
    /\ UNCHANGED <<compVars, errVars, tickVars, journalVars, error_count, mental_activity_level,
                   health_seen, gen_thought>>

\* perform_deep_reflection up to the LLM call: without the affect container
\* it returns (and the task completes); otherwise the memory is cloned, the
\* container released and call_for_reflection awaited
DeepReflectionStart ==
    /\ pc["dispatch"] = "handler"
    /\ next_result.task.kind = "DeepReflection"
    /\ IF lock_holder["affective_core"] = "free"
       THEN /\ pc' = [pc EXCEPT !["dispatch"] = "llm"]
            /\ UNCHANGED schedVars
       ELSE /\ pc' = [pc EXCEPT !["dispatch"] = "loop"]
            /\ CompleteTask(next_result.task)
    /\ UNCHANGED <<compVars, errVars, tickVars, journalVars, lock_holder, error_count,
                   mental_activity_level, health_seen, gen_thought>>

\* call_for_reflection returns Ok: the personality is committed if the affect
\* container can be taken, a SelfReflection thought of intensity 0.9 added
DeepReflectionOk ==
    /\ pc["dispatch"] = "llm"
    /\ AddSpontaneousThought("SelfReflection", 90)
    /\ CompleteTask(next_result.task)
    /\ pc' = [pc EXCEPT !["dispatch"] = "loop"]
    /\ UNCHANGED <<compVars, errVars, tickVars, lock_holder, error_count, mental_activity_level,
                   health_seen, gen_thought>>

\* last_error_time before the first failure: None
NoInstant == -1

\* the categories format!("{:?}", error) tells apart
LlmErrors == {"NetworkError", "RateLimitExceeded"}

\* the failures call_for_reflection is taken to end with
ReflectionErrors == {"NetworkError"}

\* error_types.len() > 20
max_error_types == 20

\* (mutation) a failure list that is never trimmed
push_error_unbounded(types, e) ==
    Append(types, e)

\* error_types.push(..); if error_types.len() > 20 { error_types.remove(0); }
push_error(types, e) ==
    LET t == Append(types, e)
    IN  IF Len(t) > max_error_types THEN Tail(t) ELSE t

\* handle_error: the count goes up by one, the time is stamped, the category
\* recorded, and an ErrorRecovery thought of intensity 0.6 added
HandleError(e) ==
    /\ error_count' = error_count + 1
    /\ last_error_time' = instant
    /\ error_types' = push_error(error_types, e)
    /\ AddSpontaneousThought("ErrorRecovery", 60)

\* call_for_reflection returns Err: handle_error takes the error
DeepReflectionErr ==
    /\ pc["dispatch"] = "llm"
    /\ \E e \in ReflectionErrors : HandleError(e)
    /\ CompleteTask(next_result.task)
    /\ pc' = [pc EXCEPT !["dispatch"] = "loop"]
    /\ UNCHANGED <<compVars, tickVars, lock_holder, mental_activity_level, health_seen,
                   gen_thought>>

\* (mutation) a recovery that leaves the error count where it was
HandleErrorRecovery_keeps_count ==
    /\ pc["dispatch"] = "handler"
    /\ next_result.task.kind = "ErrorRecovery"
    /\ AddSpontaneousThought("ErrorRecovery", 80)
    /\ error_count' = error_count
    /\ CompleteTask(next_result.task)
    /\ pc' = [pc EXCEPT !["dispatch"] = "loop"]
    /\ UNCHANGED <<compVars, errVars, tickVars, lock_holder, mental_activity_level, health_seen,
                   gen_thought>>

\* handle_error_recovery: an ErrorRecovery thought of intensity 0.8, and the
\* error count reset
HandleErrorRecovery ==
    /\ pc["dispatch"] = "handler"
    /\ next_result.task.kind = "ErrorRecovery"
    /\ AddSpontaneousThought("ErrorRecovery", 80)
    /\ error_count' = 0
    /\ CompleteTask(next_result.task)
    /\ pc' = [pc EXCEPT !["dispatch"] = "loop"]
    /\ UNCHANGED <<compVars, errVars, tickVars, lock_holder, mental_activity_level, health_seen,
                   gen_thought>>

\* reassess_goals and regulate_emotions_if_needed work on their containers
\* under try_lock and touch nothing else
HandleContainerTask ==
    /\ pc["dispatch"] = "handler"
    /\ next_result.task.kind \in {"GoalReassessment", "EmotionalRegulation"}
    /\ CompleteTask(next_result.task)
    /\ pc' = [pc EXCEPT !["dispatch"] = "loop"]
    /\ UNCHANGED <<compVars, errVars, tickVars, journalVars, lock_holder, error_count,
                   mental_activity_level, health_seen, gen_thought>>

\* --- monitor_system_health, run by run_system_monitoring's tick and by ----
\* --- the dispatch of a SystemHealthCheck task ----------------------------

\* where monitor_system_health returns to
HealthCaller(p) ==
    \/ p = "monitor" /\ pc[p] = "idle"
    \/ /\ p = "dispatch" /\ pc[p] = "handler"
       /\ next_result.task.kind = "SystemHealthCheck"

\* the check from its start to its first wait: it reads error_count and the
\* activity level, and returns at once when neither is above its threshold
HealthRead(p) ==
    /\ HealthCaller(p)
    /\ health_seen' = [health_seen EXCEPT ![p] =
                          [errors |-> error_count,
                           activity |-> mental_activity_level]]
    /\ IF error_count > error_threshold
       THEN pc' = [pc EXCEPT ![p] = "health_errors"] /\ UNCHANGED schedVars
       ELSE IF mental_activity_level > activity_threshold
       THEN pc' = [pc EXCEPT ![p] = "health_activity"] /\ UNCHANGED schedVars
       ELSE IF p = "dispatch"
       THEN pc' = [pc EXCEPT ![p] = "loop"] /\ CompleteTask(next_result.task)
       ELSE pc' = [pc EXCEPT ![p] = "idle"] /\ UNCHANGED schedVars
    /\ UNCHANGED <<compVars, errVars, tickVars, journalVars, lock_holder, error_count,
                   mental_activity_level, gen_thought>>

\* error_count > 5, once task_scheduler.lock().await returns: an ErrorRecovery
\* task with the count that was read is scheduled and the guard dropped
HealthEscalate(p) ==
    /\ pc[p] = "health_errors"
    /\ lock_holder["task_scheduler"] = "free"
    /\ ScheduleTask(Task("ErrorRecovery", health_seen[p].errors))
    /\ pc' = [pc EXCEPT ![p] =
                IF health_seen[p].activity > activity_threshold
                THEN "health_activity" ELSE "health_done"]
    /\ UNCHANGED <<compVars, errVars, tickVars, journalVars, lock_holder, error_count,
                   mental_activity_level, health_seen, gen_thought>>

\* mental_activity > 0.9, once task_scheduler.lock().await returns: an
\* EmotionalRegulation task is scheduled and the guard dropped
HealthRegulate(p) ==
    /\ pc[p] = "health_activity"
    /\ lock_holder["task_scheduler"] = "free"
    /\ ScheduleTask(Task("EmotionalRegulation", ""))
    /\ pc' = [pc EXCEPT ![p] = "health_done"]
    /\ UNCHANGED <<compVars, errVars, tickVars, journalVars, lock_holder, error_count,
                   mental_activity_level, health_seen, gen_thought>>

\* the check returns: to the monitoring loop's timer, or to the dispatch
\* loop, which completes the task
HealthReturn(p) ==
    /\ pc[p] = "health_done"
    /\ IF p = "dispatch"
       THEN pc' = [pc EXCEPT ![p] = "loop"] /\ CompleteTask(next_result.task)
       ELSE pc' = [pc EXCEPT ![p] = "idle"] /\ UNCHANGED schedVars
    /\ UNCHANGED <<compVars, errVars, tickVars, journalVars, lock_holder, error_count,
                   mental_activity_level, health_seen, gen_thought>>

\* --- interactive_session -------------------------------------------------

\* "reflect": the affect guard taken by try_lock lives across
\* core.reflect().await
ReflectStart ==
    /\ pc["user"] = "idle"
    /\ lock_holder["affective_core"] = "free"
    /\ lock_holder' = [lock_holder EXCEPT !["affective_core"] = "user"]
    /\ pc' = [pc EXCEPT !["user"] = "reflect"]
    /\ UNCHANGED <<compVars, errVars, tickVars, schedVars, journalVars, error_count,
                   mental_activity_level, health_seen, gen_thought>>

\* core.reflect() returns, Ok or Err, and the guard is dropped
ReflectDone ==
    /\ pc["user"] = "reflect"
    /\ lock_holder' = [lock_holder EXCEPT !["affective_core"] = "free"]
    /\ pc' = [pc EXCEPT !["user"] = "idle"]
    /\ UNCHANGED <<compVars, errVars, tickVars, schedVars, journalVars, error_count,
                   mental_activity_level, health_seen, gen_thought>>

\* run_conversational_turn up to process_emotions_comprehensively's LLM call:
\* the memory is cloned under try_lock and the appraisal awaited
TurnStart ==
    /\ pc["user"] = "idle"
    /\ lock_holder["affective_core"] = "free"
    /\ pc' = [pc EXCEPT !["user"] = "appraise"]
    /\ UNCHANGED <<compVars, errVars, tickVars, schedVars, journalVars, lock_holder, error_count,
                   mental_activity_level, health_seen, gen_thought>>

\* the appraisal returns; goals and metacognition are worked on under
\* try_lock, then display_comprehensive_state asks for the mental state
\* summary, which waits for the scheduler in get_task_scheduler_status
TurnAppraised ==
    /\ pc["user"] = "appraise"
    /\ pc' = [pc EXCEPT !["user"] = "status"]
    /\ UNCHANGED <<compVars, errVars, tickVars, schedVars, journalVars, lock_holder, error_count,
                   mental_activity_level, health_seen, gen_thought>>

\* "status": display_comprehensive_state
StatusStart ==
    /\ pc["user"] = "idle"
    /\ pc' = [pc EXCEPT !["user"] = "status"]
    /\ UNCHANGED <<compVars, errVars, tickVars, schedVars, journalVars, lock_holder, error_count,
                   mental_activity_level, health_seen, gen_thought>>

\* get_task_scheduler_status once the lock is granted; the rest of
\* display_comprehensive_state reads the three most recent thoughts
StatusDone ==
    /\ pc["user"] = "status"
    /\ lock_holder["task_scheduler"] = "free"
    /\ GetRecentThoughts(3)
    /\ pc' = [pc EXCEPT !["user"] = "idle"]
    /\ UNCHANGED <<compVars, errVars, tickVars, schedVars, lock_holder, error_count,
                   mental_activity_level, health_seen, gen_thought>>

-----------------------------------------------------------------------------
(* The containers under contention.                                        *)
(*                                                                         *)
(* The tasks run on tokio's multi-thread runtime, so the code between a    *)
(* try_lock and the drop of its guard overlaps with the steps of the other *)
(* tasks: an access that mutates a container is two steps, the try_lock    *)
(* and the mutation that ends with the guard dropped. Every mutation is a  *)
(* deterministic function of the state it finds, so the state of a         *)
(* container is represented by the sequence of the mutations applied to it *)
(* since construction.                                                     *)

\* (mutation) a try_lock that is granted whoever holds the guard
try_lock_blind(holder, l) == TRUE

\* std::sync::Mutex::try_lock: Ok exactly when nobody holds the guard
try_lock(holder, l) == holder[l] = "free"

\* what a mutation through the guard leaves in the container
mutate(copy, op) == Append(copy, op)

Attempt(op, by, got) == [op |-> op, by |-> by, got |-> got]

\* (mutation) a refused try_lock ends the tick or the turn of the task
TryContainer_abort(p, l, op, at, past) ==
    LET got == try_lock(lock_holder, l)
    IN  /\ attempts' = [attempts EXCEPT ![l] = Append(@, Attempt(op, p, got))]
        /\ IF got
           THEN /\ lock_holder' = [lock_holder EXCEPT ![l] = p]
                /\ held_copy' = [held_copy EXCEPT ![p] = containers[l]]
                /\ pc' = [pc EXCEPT ![p] = at]
           ELSE /\ pc' = [pc EXCEPT ![p] = "idle"]
                /\ UNCHANGED <<lock_holder, held_copy>>

\* `if let Ok(mut guard) = container.try_lock()` in task p: Ok takes p into
\* the guarded block (at), Err takes it past the block (past)
TryContainer(p, l, op, at, past) ==
    LET got == try_lock(lock_holder, l)
    IN  /\ attempts' = [attempts EXCEPT ![l] = Append(@, Attempt(op, p, got))]
        /\ IF got
           THEN /\ lock_holder' = [lock_holder EXCEPT ![l] = p]
                /\ held_copy' = [held_copy EXCEPT ![p] = containers[l]]
                /\ pc' = [pc EXCEPT ![p] = at]
           ELSE /\ pc' = [pc EXCEPT ![p] = past]
                /\ UNCHANGED <<lock_holder, held_copy>>

\* the guarded block of task p: the mutation is made and the guard dropped
DropGuard(p, l, op, past) ==
    /\ containers' = [containers EXCEPT ![l] = mutate(held_copy[p], op)]
    /\ lock_holder' = [lock_holder EXCEPT ![l] = "free"]
    /\ pc' = [pc EXCEPT ![p] = past]

\* run_main_loop: interval.tick() returns and the five sub-steps begin
MainTick ==
    /\ pc["main"] = "idle"
    /\ pc' = [pc EXCEPT !["main"] = "attention"]
    /\ UNCHANGED <<compVars, errVars, tickVars, schedVars, journalVars, lock_holder, error_count,
                   mental_activity_level, health_seen, gen_thought>>

\* update_attention_system
UpdateAttentionTry ==
    /\ pc["main"] = "attention"
    /\ TryContainer("main", "attention_system", "update", "attention_cs", "decay")
    /\ UNCHANGED <<compVars, errVars, containers, followups, commit_result, schedVars, journalVars,
                   error_count, mental_activity_level, health_seen, gen_thought>>

UpdateAttentionDone ==
    /\ pc["main"] = "attention_cs"
    /\ DropGuard("main", "attention_system", "update", "decay")
    /\ UNCHANGED <<compVars, errVars, held_copy, followups, commit_result, attempts, schedVars,
                   journalVars, error_count, mental_activity_level, health_seen,
                   gen_thought>>

\* decay_metacognition
DecayMetacognitionTry ==
    /\ pc["main"] = "decay"
    /\ TryContainer("main", "metacognition", "decay_over_time", "decay_cs",
                    "regulate")
    /\ UNCHANGED <<compVars, errVars, containers, followups, commit_result, schedVars, journalVars,
                   error_count, mental_activity_level, health_seen, gen_thought>>

DecayMetacognitionDone ==
    /\ pc["main"] = "decay_cs"
    /\ DropGuard("main", "metacognition", "decay_over_time", "regulate")
    /\ UNCHANGED <<compVars, errVars, held_copy, followups, commit_result, attempts, schedVars,
                   journalVars, error_count, mental_activity_level, health_seen,
                   gen_thought>>

\* regulate_emotions_if_needed; due: two seconds have passed since the last
\* regulation that was made
RegulateEmotionsTry(due) ==
    /\ pc["main"] = "regulate"
    /\ IF due
       THEN TryContainer("main", "affective_core", "regulate_emotion",
                         "regulate_cs", "mental_state")
       ELSE /\ pc' = [pc EXCEPT !["main"] = "mental_state"]
            /\ UNCHANGED <<lock_holder, held_copy, attempts>>
    /\ UNCHANGED <<compVars, errVars, containers, followups, commit_result, schedVars, journalVars,
                   error_count, mental_activity_level, health_seen, gen_thought>>

RegulateEmotionsDone ==
    /\ pc["main"] = "regulate_cs"
    /\ DropGuard("main", "affective_core", "regulate_emotion", "mental_state")
    /\ UNCHANGED <<compVars, errVars, held_copy, followups, commit_result, attempts, schedVars,
                   journalVars, error_count, mental_activity_level, health_seen,
                   gen_thought>>

\* update_comprehensive_mental_state, whose guards are dropped as soon as the
\* states are copied, and the head of process_pending_thoughts, which
\* collects the thoughts that need a follow-up
TickMentalState(base) ==
    /\ pc["main"] = "mental_state"
    /\ mental_activity_level' =
           IF try_lock(lock_holder, "affective_core")
              /\ try_lock(lock_holder, "metacognition")
           THEN smooth_activity(mental_activity_level, base)
           ELSE mental_activity_level
    /\ followups' = SelectSeq(spontaneous_thoughts,
                              LAMBDA a : needs_follow_up(a, utc_now))
    /\ pc' = [pc EXCEPT !["main"] = "pending"]
    /\ UNCHANGED <<compVars, errVars, containers, held_copy, commit_result, attempts, schedVars,
                   journalVars, lock_holder, error_count, health_seen,
                   gen_thought>>

\* the container and the mutation process_pending_thoughts has for a thought
followup_lock(th) ==
    IF th = "SelfReflection" THEN "metacognition"
    ELSE IF th = "GoalReassessment" THEN "goal_system" ELSE ""

followup_op(th) ==
    IF th = "SelfReflection" THEN "record_process"
    ELSE IF th = "GoalReassessment" THEN "determine_focus" ELSE ""

\* process_pending_thoughts: the next thought of the loop, or the end of it
\* and of the tick
PendingThoughtTry ==
    /\ pc["main"] = "pending"
    /\ IF followups = <<>>
       THEN /\ pc' = [pc EXCEPT !["main"] = "idle"]
            /\ UNCHANGED <<lock_holder, held_copy, attempts, followups>>
       ELSE LET th == Head(followups).thought
            IN  IF followup_lock(th) = ""
                THEN /\ followups' = Tail(followups)
                     /\ UNCHANGED <<pc, lock_holder, held_copy, attempts>>
                ELSE /\ TryContainer("main", followup_lock(th), followup_op(th),
                                     "pending_cs", "pending")
                     /\ followups' =
                            IF try_lock(lock_holder, followup_lock(th))
                            THEN followups ELSE Tail(followups)
    /\ UNCHANGED <<compVars, errVars, containers, commit_result, schedVars, journalVars,
                   error_count, mental_activity_level, health_seen, gen_thought>>

PendingThoughtDone ==
    /\ pc["main"] = "pending_cs"
    /\ DropGuard("main", followup_lock(Head(followups).thought),
                 followup_op(Head(followups).thought), "pending")
    /\ followups' = Tail(followups)
    /\ UNCHANGED <<compVars, errVars, held_copy, commit_result, attempts, schedVars, journalVars,
                   error_count, mental_activity_level, health_seen, gen_thought>>

\* run_conversational_turn: analyze_and_update_attention
AttentionShiftTry ==
    /\ pc["user"] = "idle"
    /\ TryContainer("user", "attention_system", "evaluate_attention_shift",
                    "attention_cs", "clone_memory")
    /\ UNCHANGED <<compVars, errVars, containers, followups, commit_result, schedVars, journalVars,
                   error_count, mental_activity_level, health_seen, gen_thought>>

AttentionShiftDone ==
    /\ pc["user"] = "attention_cs"
    /\ DropGuard("user", "attention_system", "evaluate_attention_shift",
                 "clone_memory")
    /\ UNCHANGED <<compVars, errVars, held_copy, followups, commit_result, attempts, schedVars,
                   journalVars, error_count, mental_activity_level, health_seen,
                   gen_thought>>

\* process_emotions_comprehensively: the memory is cloned under try_lock, or
\* the function returns, and the appraisal is awaited
CloneMemory ==
    /\ pc["user"] = "clone_memory"
    /\ pc' = [pc EXCEPT !["user"] =
                IF try_lock(lock_holder, "affective_core")
                THEN "appraise_emotion" ELSE "idle"]
    /\ UNCHANGED <<compVars, errVars, tickVars, schedVars, journalVars, lock_holder, error_count,
                   mental_activity_level, health_seen, gen_thought>>

\* appraise_emotion_from_prompt returns: Ok goes to the commit of the
\* emotion, Err to the record of the failure
EmotionAppraised(ok) ==
    /\ pc["user"] = "appraise_emotion"
    /\ IF ok
       THEN /\ TryContainer("user", "affective_core", "process_emotion",
                            "commit_cs", "record")
            /\ commit_result' =
                   IF try_lock(lock_holder, "affective_core")
                   THEN "granted" ELSE "skipped"
       ELSE /\ pc' = [pc EXCEPT !["user"] = "record"]
            /\ commit_result' = "none"
            /\ UNCHANGED <<lock_holder, held_copy, attempts>>
    /\ UNCHANGED <<compVars, errVars, containers, followups, schedVars, journalVars, error_count,
                   mental_activity_level, health_seen, gen_thought>>

EmotionCommitDone ==
    /\ pc["user"] = "commit_cs"
    /\ DropGuard("user", "affective_core", "process_emotion", "record")
    /\ commit_result' = "committed"
    /\ UNCHANGED <<compVars, errVars, held_copy, followups, attempts, schedVars, journalVars,
                   error_count, mental_activity_level, health_seen, gen_thought>>

\* the record of the emotional processing, made on both branches
RecordProcessTry ==
    /\ pc["user"] = "record"
    /\ TryContainer("user", "metacognition", "record_process", "record_cs",
                    "idle")
    /\ UNCHANGED <<compVars, errVars, containers, followups, commit_result, schedVars, journalVars,
                   error_count, mental_activity_level, health_seen, gen_thought>>

RecordProcessDone ==
    /\ pc["user"] = "record_cs"
    /\ DropGuard("user", "metacognition", "record_process", "idle")
    /\ UNCHANGED <<compVars, errVars, held_copy, followups, commit_result, attempts, schedVars,
                   journalVars, error_count, mental_activity_level, health_seen,
                   gen_thought>>

-----------------------------------------------------------------------------
(* The GoalSystem (goals.rs).                                              *)
(*                                                                         *)
(* Priorities, progress and the dimensions of affect are in hundredths,    *)
(* motivation and emotional_investment in thousandths, importance in       *)
(* 1/10000. A goal's id is the wall clock in nanoseconds at its creation;  *)
(* successive form_goal calls read different clock values, so the goals    *)
(* are kept in the order of creation and the id is the position. The       *)
(* HashMap is iterated in no particular order: where the code takes the    *)
(* first or the last of equals, any of the equals may be taken.            *)

Clamp(x, lo, hi) == IF x < lo THEN lo ELSE IF x > hi THEN hi ELSE x

Abs(x) == IF x < 0 THEN -x ELSE x

AffectiveState(v, a, d, n) ==
    [valence |-> v, arousal |-> a, dominance |-> d, novelty |-> n]

goal_formation_threshold == 400
max_active_goals == 10

calculate_motivation(state, category) ==
    Clamp(CASE category = "Epistemic" ->
                   5 * state.arousal + 5 * Abs(state.novelty)
            [] category = "Social" ->
                   6 * state.valence + 4 * (100 - Abs(state.dominance))
            [] category = "SelfDevelopment" ->
                   4 * (100 - state.valence) + 6 * state.dominance
            [] category = "Creative" ->
                   6 * state.valence + 4 * state.arousal
            [] category = "Altruistic" ->
                   7 * state.valence + 3 * state.dominance
            [] category = "Homeostatic" ->
                   6 * state.arousal + 4 * (100 - state.valence),
          0, 1000)

\* Goal::new followed by form_goal's emotional_investment = motivation
Goal(category, prio, motivation) ==
    [category |-> category, priority |-> Clamp(prio, 0, 100),
     progress |-> 0, status |-> "Active",
     emotional_investment |-> motivation]

\* no goal has a deadline and every urgency is 0.5
calculate_importance(g) ==
    Clamp(40 * g.priority + 1500 + 2 * g.emotional_investment + 500, 0, 10000)

should_act_on(g) == g.status = "Active" /\ calculate_importance(g) > 3000

ActiveIds(gs) == {id \in 1..Len(gs) : gs[id].status = "Active"}

\* (mutation) prune_low_priority_goals abandoning every Active goal
prune_all_active(gs, lowest_id) ==
    [id \in 1..Len(gs) |->
        IF gs[id].status = "Active"
        THEN [gs[id] EXCEPT !.status = "Abandoned"] ELSE gs[id]]

\* (mutation) prune_low_priority_goals abandoning nothing
prune_nothing(gs, lowest_id) == gs

\* the ids prune_low_priority_goals may find first after its sort
lowest_ids(gs) ==
    {id \in ActiveIds(gs) :
        \A other \in ActiveIds(gs) :
            calculate_importance(gs[id]) <= calculate_importance(gs[other])}

prune_low_priority_goals(gs, lowest_id) ==
    [gs EXCEPT ![lowest_id].status = "Abandoned"]

\* (mutation) form_goal pruning before it looks at the motivation
form_goal_prune_first(gs, category, prio, state, lowest_id) ==
    LET motivation == calculate_motivation(state, category)
        full == Cardinality(ActiveIds(gs)) >= max_active_goals
        pruned == IF full THEN prune_low_priority_goals(gs, lowest_id) ELSE gs
    IN  IF motivation < goal_formation_threshold
        THEN [goals |-> pruned, result |-> 0]
        ELSE [goals |-> Append(pruned, Goal(category, prio, motivation)),
              result |-> Len(gs) + 1]

\* form_goal: the goals afterwards and the id returned (0 for None);
\* lowest_id is the goal the pruning finds first, when it prunes
form_goal(gs, category, prio, state, lowest_id) ==
    LET motivation == calculate_motivation(state, category)
        full == Cardinality(ActiveIds(gs)) >= max_active_goals
        pruned == IF full THEN prune_low_priority_goals(gs, lowest_id) ELSE gs
    IN  IF motivation < goal_formation_threshold
        THEN [goals |-> gs, result |-> 0]
        ELSE [goals |-> Append(pruned, Goal(category, prio, motivation)),
              result |-> Len(gs) + 1]

FormGoal(category, prio, state) ==
    \E lowest_id \in IF Cardinality(ActiveIds(goals)) >= max_active_goals
                     THEN lowest_ids(goals) ELSE {0} :
        LET r == form_goal(goals, category, prio, state, lowest_id)
        IN  /\ goals' = r.goals
            /\ form_result' = r.result
            /\ UNCHANGED <<current_focus, achievement_history>>

UpdateGoalProgress(goal_id, progress_delta) ==
    /\ IF goal_id \in 1..Len(goals)
       THEN LET progress == Clamp(goals[goal_id].progress + progress_delta,
                                  0, 100)
            IN  IF progress >= 100
                THEN /\ goals' = [goals EXCEPT ![goal_id].progress = progress,
                                               ![goal_id].status = "Completed"]
                     /\ achievement_history' =
                            Append(achievement_history, goal_id)
                     /\ current_focus' =
                            IF current_focus = goal_id THEN 0 ELSE current_focus
                ELSE /\ goals' = [goals EXCEPT ![goal_id].progress = progress]
                     /\ UNCHANGED <<achievement_history, current_focus>>
       ELSE UNCHANGED <<goals, achievement_history, current_focus>>
    /\ UNCHANGED form_result

\* the goals determine_focus may find as the most important one
best_goals(gs) ==
    {id \in 1..Len(gs) :
        /\ should_act_on(gs[id])
        /\ \A other \in 1..Len(gs) :
               should_act_on(gs[other])
               => calculate_importance(gs[other]) <= calculate_importance(gs[id])}

DetermineFocus ==
    /\ IF best_goals(goals) = {}
       THEN current_focus' = 0
       ELSE \E best_goal \in best_goals(goals) : current_focus' = best_goal
    /\ UNCHANGED <<goals, achievement_history, form_result>>

-----------------------------------------------------------------------------
(* The AttentionSystem (attention.rs).                                     *)
(*                                                                         *)
(* Intensity, stability and salience are in 1/10000, time in minutes. The  *)
(* salience kept in an AttentionState and its duration are read by no      *)
(* operation modelled here and are left out. background_attention is a     *)
(* function from the targets it holds to their states; attention_history   *)
(* is kept by its length.                                                  *)

max_background_targets == 5
distraction_threshold == 7000
focus_threshold == 6000

NoFocus == [target |-> "", intensity |-> 0, stability |-> 0]

\* AttentionState::new
AttentionState(target, intensity) ==
    [target |-> target, intensity |-> Clamp(intensity, 0, 10000),
     stability |-> 5000]

\* HashMap::insert
insert(background, state) ==
    [t \in DOMAIN background \cup {state.target} |->
        IF t = state.target THEN state ELSE background[t]]

\* HashMap::remove
remove(background, target) ==
    [t \in DOMAIN background \ {target} |-> background[t]]

\* the targets min_by may return: the map is iterated in no particular order
weakest_targets(background) ==
    {t \in DOMAIN background :
        \A u \in DOMAIN background :
            background[t].intensity <= background[u].intensity}

prune_background_attention(background, weakest) ==
    IF Cardinality(DOMAIN background) > max_background_targets
    THEN remove(background, weakest)
    ELSE background

\* focus_on on the system sys = [primary, background, history]; weakest is
\* the target the pruning finds, when the target goes to the background
focus_on(sys, target, intensity, weakest) ==
    IF intensity >= focus_threshold
    THEN [primary |-> AttentionState(target, intensity),
          background |->
              IF sys.primary # NoFocus /\ sys.primary.intensity > 3000
              THEN insert(sys.background, sys.primary)
              ELSE sys.background,
          history |-> sys.history + 1]
    ELSE [primary |-> sys.primary,
          background |->
              prune_background_attention(
                  insert(sys.background, AttentionState(target, intensity)),
                  weakest),
          history |-> sys.history + 1]

\* evaluate_attention_shift: every focus_on it makes has an intensity above
\* focus_threshold, so that no pruning is made and weakest is not looked at
RECURSIVE evaluate_attention_shift(_, _)
evaluate_attention_shift(sys, stimuli) ==
    IF stimuli = <<>> THEN sys
    ELSE LET target == Head(stimuli)[1]
             salience == Head(stimuli)[2]
         IN  IF sys.primary # NoFocus
             THEN IF /\ salience > distraction_threshold
                     /\ salience > sys.primary.intensity + sys.primary.stability
                  THEN focus_on(sys, target, salience, target)
                  ELSE evaluate_attention_shift(sys, Tail(stimuli))
             ELSE IF salience > focus_threshold
                  THEN evaluate_attention_shift(
                           focus_on(sys, target, salience, target),
                           Tail(stimuli))
                  ELSE evaluate_attention_shift(sys, Tail(stimuli))

\* AttentionState::update, for a whole number of minutes
state_update(state, minutes) ==
    LET intensity == (state.intensity * Max(100 - minutes, 0)) \div 100
    IN  [state EXCEPT !.intensity = intensity,
                      !.stability = IF intensity > 5000
                                    THEN Clamp(@ + 200 * minutes, 0, 10000)
                                    ELSE @]

AttentionSystemState ==
    [primary |-> primary_focus, background |-> background_attention,
     history |-> attention_history]

FocusOn(target, intensity) ==
    \E weakest \in weakest_targets(insert(background_attention,
                                          AttentionState(target, intensity))) :
        LET sys == focus_on(AttentionSystemState, target, intensity, weakest)
        IN  /\ primary_focus' = sys.primary
            /\ background_attention' = sys.background
            /\ attention_history' = sys.history

EvaluateAttentionShift(stimuli) ==
    LET sys == evaluate_attention_shift(AttentionSystemState, stimuli)
    IN  /\ primary_focus' = sys.primary
        /\ background_attention' = sys.background
        /\ attention_history' = sys.history

\* AttentionSystem::update
AttentionUpdate(minutes) ==
    LET focus == state_update(primary_focus, minutes)
        updated == [t \in DOMAIN background_attention |->
                       state_update(background_attention[t], minutes)]
        to_remove == {t \in DOMAIN updated : updated[t].intensity < 500}
    IN  /\ primary_focus' =
               IF primary_focus = NoFocus \/ focus.intensity < 1000
               THEN NoFocus ELSE focus
        /\ background_attention' =
               [t \in DOMAIN updated \ to_remove |-> updated[t]]
        /\ UNCHANGED attention_history

-----------------------------------------------------------------------------
(* The AffectiveCore (core.rs).  The four dimensions are in hundredths     *)
(* (0.3 -> 30), as are the intensities and likelihoods of the emotions and *)
(* the two factors of the configuration; a product of two of them is       *)
(* brought back to hundredths by scale.                                    *)

scale(x, y) == (x * y) \div 100

\* AffectiveState::new_neutral
new_neutral == AffectiveState(0, 30, 10, 0)

\* AffectiveConfig::default
baseline_state == new_neutral
decay_rate == 15
empathy_factor == 50

\* an appraised emotion: the variant and its intensity (or likelihood)
OccEmotion(kind, intensity) == [kind |-> kind, intensity |-> intensity]

\* AffectiveCore::emotion_to_affective_change
emotion_to_affective_change(emotion) ==
    LET i == emotion.intensity
        k == emotion.kind
    IN  CASE k = "Joy" ->
               AffectiveState(scale(60, i), scale(40, i), scale(20, i), scale(10, i))
          [] k = "Pride" ->
               AffectiveState(scale(70, i), scale(30, i), scale(80, i), -10)
          [] k = "Gratitude" ->
               AffectiveState(scale(80, i), scale(20, i), scale(-30, i), 20)
          [] k = "Satisfaction" -> AffectiveState(60, -20, 40, -30)
          [] k = "Relief" -> AffectiveState(50, -50, 20, 0)
          [] k = "Distress" ->
               AffectiveState(scale(-60, i), scale(40, i), scale(-30, i), 10)
          [] k = "Fear" ->
               AffectiveState(scale(-70, i), scale(80, i), scale(-80, i), scale(60, i))
          [] k = "Anger" ->
               AffectiveState(scale(-60, i), scale(70, i), scale(60, i), 20)
          [] k = "Shame" ->
               AffectiveState(scale(-80, i), scale(20, i), scale(-90, i), 0)
          [] k = "Disappointment" -> AffectiveState(-50, -30, -40, -20)
          [] k = "Hope" ->
               AffectiveState(scale(40, i), scale(30, i), 10, 20)
          [] OTHER -> AffectiveState(0, 0, 0, 0)

\* apply_change with the clamps left out
apply_change_unclamped(state, change) ==
    AffectiveState(state.valence + change.valence,
                   state.arousal + change.arousal,
                   state.dominance + change.dominance,
                   state.novelty + change.novelty)

\* AffectiveState::apply_change
apply_change(state, change) ==
    AffectiveState(Clamp(state.valence + change.valence, -100, 100),
                   Clamp(state.arousal + change.arousal, 0, 100),
                   Clamp(state.dominance + change.dominance, -100, 100),
                   Clamp(state.novelty + change.novelty, -100, 100))

\* AffectiveState::decay
decay(state, baseline, rate) ==
    LET r == Clamp(rate, 0, 100)
    IN  AffectiveState(
            state.valence + scale(baseline.valence - state.valence, r),
            state.arousal + scale(baseline.arousal - state.arousal, r),
            state.dominance + scale(baseline.dominance - state.dominance, r),
            state.novelty + scale(baseline.novelty - state.novelty, r))

\* the history keeps the ten latest emotions
push_emotion(history, emotion) ==
    LET pushed_to == Append(history, emotion.kind)
    IN  IF Len(pushed_to) > 10 THEN Tail(pushed_to) ELSE pushed_to

\* AffectiveCore::process_emotion
ProcessEmotion(emotion) ==
    LET change == emotion_to_affective_change(emotion)
        blended_change ==
            AffectiveState(scale(change.valence, empathy_factor),
                           scale(change.arousal, empathy_factor),
                           scale(change.dominance, empathy_factor),
                           scale(change.novelty, empathy_factor))
    IN  /\ current_state' = apply_change(current_state, blended_change)
        /\ emotional_history' = push_emotion(emotional_history, emotion)
        /\ mutations' = mutations + 1

\* AffectiveCore::regulate_emotion
RegulateEmotion ==
    /\ current_state' = decay(current_state, baseline_state, decay_rate)
    /\ mutations' = mutations + 1
    /\ UNCHANGED emotional_history

-----------------------------------------------------------------------------
(* The MetacognitiveMonitor (metacognition.rs).  The seven scalars of the  *)
(* state and the payloads of the processes are in thousandths.             *)

permille(x, y) == (x * y) \div 1000

\* MetacognitiveState
MetacognitiveState(aware, conf, load, underst, attn, intro, meta) ==
    [self_awareness_level |-> aware,
     reasoning_confidence |-> conf,
     cognitive_load |-> load,
     situation_understanding |-> underst,
     attention_intensity |-> attn,
     introspection_depth |-> intro,
     meta_reasoning_strength |-> meta]

\* MetacognitiveState::default
DefaultMetacognitiveState ==
    MetacognitiveState(300, 500, 200, 400, 500, 300, 400)

\* a process: the variant and its numeric payload (priority, confidence,
\* originality or empathy_level; 0 for the variants that carry none)
CognitiveProcess(kind, payload) == [kind |-> kind, payload |-> payload]

\* CognitiveProcess::cognitive_load_impact
cognitive_load_impact(process) ==
    CASE process.kind = "ValueConflict" -> 300
      [] process.kind = "ErrorRecovery" -> 200
      [] process.kind = "SelfReflection" -> 150
      [] process.kind = "CreativeThinking" -> 100
      [] process.kind = "PredictiveThinking" -> 100
      [] process.kind = "GoalFormation" -> 80
      [] process.kind = "AttentionShift" -> 50
      [] process.kind = "EmotionalProcessing" -> 50
      [] process.kind = "SocialInteraction" -> 30
      [] process.kind = "MemoryRetrieval" -> 20

\* CognitiveProcess::awareness_boost
awareness_boost(process) ==
    CASE process.kind = "SelfReflection" -> permille(process.payload, 100)
      [] process.kind = "ValueConflict" -> 50
      [] process.kind = "CreativeThinking" -> permille(process.payload, 30)
      [] process.kind = "ErrorRecovery" -> 20
      [] OTHER -> 10

\* clamp_state_values leaving every value as it is
clamp_nothing(state) == state

\* MetacognitiveMonitor::clamp_state_values
clamp_state_values(state) ==
    [field \in DOMAIN state |-> Clamp(state[field], 0, 1000)]

\* MetacognitiveMonitor::update_state_from_process
update_state_from_process(state, process) ==
    LET loaded == [state EXCEPT
            !.cognitive_load = @ + cognitive_load_impact(process),
            !.self_awareness_level = @ + awareness_boost(process)]
        updated ==
            CASE process.kind = "SelfReflection" ->
                   [loaded EXCEPT
                       !.reasoning_confidence = (@ + process.payload) \div 2,
                       !.introspection_depth = @ + 50,
                       !.meta_reasoning_strength = @ + 30]
              [] process.kind = "AttentionShift" ->
                   [loaded EXCEPT !.attention_intensity = @ + 50]
              [] process.kind = "ValueConflict" ->
                   [loaded EXCEPT !.reasoning_confidence = @ - 100,
                                  !.cognitive_load = @ + 200,
                                  !.introspection_depth = @ + 100]
              [] process.kind = "ErrorRecovery" ->
                   [loaded EXCEPT !.reasoning_confidence = @ - 50,
                                  !.meta_reasoning_strength = @ + 50]
              [] process.kind = "CreativeThinking" ->
                   [loaded EXCEPT
                       !.cognitive_load = @ + permille(process.payload, 100),
                       !.self_awareness_level = @ + permille(process.payload, 20)]
              [] process.kind = "SocialInteraction" ->
                   [loaded EXCEPT
                       !.situation_understanding = @ + permille(process.payload, 30)]
              [] OTHER -> loaded
    IN  clamp_state_values(updated)

\* MetacognitiveMonitor::update_meta_reasoning
update_meta_reasoning(state, reflection_count) ==
    LET reasoned ==
            IF reflection_count > 0
            THEN [state EXCEPT !.meta_reasoning_strength =
                      @ + (IF reflection_count < 10 THEN reflection_count ELSE 10)]
            ELSE state
        deepened ==
            IF reasoned.self_awareness_level > 700
            THEN [reasoned EXCEPT !.introspection_depth = @ + 5]
            ELSE reasoned
    IN  clamp_state_values(deepened)

\* ReflectionTrigger::new; thresholds in thousandths
ReflectionTrigger(name, threshold, cooldown_minutes) ==
    [name |-> name, threshold |-> threshold, cooldown_minutes |-> cooldown_minutes]

\* initialize_reflection_triggers, in the order of the vector
InitialTriggers ==
    <<ReflectionTrigger("high_cognitive_load", 800, 10),
      ReflectionTrigger("low_confidence", 300, 15),
      ReflectionTrigger("value_conflict", 500, 30),
      ReflectionTrigger("high_self_awareness", 850, 60),
      ReflectionTrigger("error_pattern", 600, 20),
      ReflectionTrigger("creative_breakthrough", 750, 45),
      ReflectionTrigger("social_complexity", 700, 25)>>

TriggerNames == {InitialTriggers[i].name : i \in 1..Len(InitialTriggers)}

\* last_triggered: None
NeverTriggered == -1

\* Duration::num_minutes of a duration given in seconds
num_minutes(seconds) ==
    IF seconds >= 0 THEN seconds \div 60 ELSE -((-seconds) \div 60)

\* (mutation) a trigger that does not look at its cooldown
should_trigger_any_time(trigger, last, value, now) ==
    value >= trigger.threshold

\* ReflectionTrigger::should_trigger
should_trigger(trigger, last, value, now) ==
    /\ value >= trigger.threshold
    /\ last # NeverTriggered
       => num_minutes(now - last) >= trigger.cooldown_minutes

\* CognitiveProcess::triggers_reflection
triggers_reflection(process) ==
    CASE process.kind = "ValueConflict" -> TRUE
      [] process.kind = "SelfReflection" -> process.payload > 800
      [] process.kind = "ErrorRecovery" -> TRUE
      [] process.kind = "CreativeThinking" -> process.payload > 700
      [] OTHER -> FALSE

\* get_error_frequency: the error recoveries of the last 24 hours, per hour
get_error_frequency(recoveries) == (recoveries * 1000) \div 24

\* the reflection queue holds at most this many reasons
max_reflection_queue == 10

\* MetacognitiveMonitor::queue_reflection
queue_reflection(queue, reason) ==
    LET q == Append(queue, reason)
    IN  IF Len(q) > max_reflection_queue THEN Tail(q) ELSE q

\* the match of check_reflection_triggers on the trigger's name
trigger_fires(trigger, last, state, process, recoveries, now) ==
    CASE trigger.name = "high_cognitive_load" ->
           should_trigger(trigger, last, state.cognitive_load, now)
      [] trigger.name = "low_confidence" ->
           should_trigger(trigger, last, 1000 - state.reasoning_confidence, now)
      [] trigger.name = "value_conflict" ->
           /\ process.kind = "ValueConflict"
           /\ should_trigger(trigger, last, 600, now)
      [] trigger.name = "high_self_awareness" ->
           should_trigger(trigger, last, state.self_awareness_level, now)
      [] trigger.name = "error_pattern" ->
           /\ process.kind = "ErrorRecovery"
           /\ get_error_frequency(recoveries) > 600
           /\ should_trigger(trigger, last, 600, now)
      [] trigger.name = "creative_breakthrough" ->
           /\ process.kind = "CreativeThinking"
           /\ should_trigger(trigger, last, process.payload, now)
      [] trigger.name = "social_complexity" ->
           /\ process.kind = "SocialInteraction"
           /\ should_trigger(trigger, last, process.payload, now)

\* the loop over triggers_to_fire: one reason queued per trigger fired
RECURSIVE queue_fired(_, _, _)
queue_fired(queue, i, fired) ==
    IF i > Len(InitialTriggers) THEN queue
    ELSE queue_fired(IF i \in fired
                     THEN queue_reflection(queue, InitialTriggers[i].name)
                     ELSE queue,
                     i + 1, fired)

\* MetacognitiveMonitor::record_process: the state update, the pattern
\* counts, check_reflection_triggers on the updated state, then
\* update_meta_reasoning.  The call is taken to fall within one reading of
\* the clock, and the 24 hours that patterns remember are never exceeded.
RecordProcess(process) ==
    LET reflection_count ==
            IF process.kind = "SelfReflection"
            THEN self_reflections + 1 ELSE self_reflections
        recoveries ==
            IF process.kind = "ErrorRecovery"
            THEN error_recoveries + 1 ELSE error_recoveries
        updated == update_state_from_process(metacog_state, process)
        fired == {i \in 1..Len(InitialTriggers) :
                     trigger_fires(InitialTriggers[i],
                                   reflection_triggers[InitialTriggers[i].name],
                                   updated, process, recoveries, monitor_now)}
        asked == IF triggers_reflection(process)
                 THEN queue_reflection(reflection_queue, "process")
                 ELSE reflection_queue
    IN  /\ metacog_state' = update_meta_reasoning(updated, reflection_count)
        /\ self_reflections' = reflection_count
        /\ error_recoveries' = recoveries
        /\ reflection_triggers' =
               [name \in TriggerNames |->
                   IF \E i \in fired : InitialTriggers[i].name = name
                   THEN monitor_now ELSE reflection_triggers[name]]
        /\ reflection_queue' = queue_fired(asked, 1, fired)
        /\ meta_mutations' = meta_mutations + 1
        /\ UNCHANGED monitor_now

\* MetacognitiveMonitor::decay_over_time
DecayOverTime ==
    /\ metacog_state' = [metacog_state EXCEPT
           !.cognitive_load = permille(@, 950),
           !.attention_intensity = permille(@, 980),
           !.self_awareness_level = permille(@, 990),
           !.reasoning_confidence = permille(@, 990),
           !.introspection_depth = permille(@, 995),
           !.meta_reasoning_strength = permille(@, 998)]
    /\ meta_mutations' = meta_mutations + 1
    /\ UNCHANGED <<self_reflections, error_recoveries, reflection_triggers,
                   reflection_queue, monitor_now>>

-----------------------------------------------------------------------------
(* The list of pending actions (continuous_mind.rs).  It sits behind a     *)
(* tokio RwLock; get_pending_actions takes the write guard, clones the     *)
(* list, clears it and returns the clone, the guard being dropped on       *)
(* return.  No method in the sources appends to the list: the producer is  *)
(* taken to push one action at a time under the same write guard.  The     *)
(* actions pushed are numbered 1, 2, ...                                   *)

Callers == {"respond", "demonstrate"}

\* a write lock that lets a second writer in
write_shared(guard) == TRUE

\* RwLock::write: granted once no other guard is held
write(guard) == guard = "free"

\* the producer: a push under the write guard
PushAction ==
    /\ write(actions_guard)
    /\ pending_actions' = Append(pending_actions, queued + 1)
    /\ queued' = queued + 1
    /\ UNCHANGED <<actions_guard, drain_pc, drain_result, returned>>

\* get_pending_actions: let mut actions = self.pending_actions.write().await
DrainWrite(c) ==
    /\ drain_pc[c] = "idle"
    /\ write(actions_guard)
    /\ actions_guard' = c
    /\ drain_pc' = [drain_pc EXCEPT ![c] = "locked"]
    /\ UNCHANGED <<pending_actions, drain_result, returned, queued>>

\* get_pending_actions: let result = actions.clone()
DrainClone(c) ==
    /\ drain_pc[c] = "locked"
    /\ drain_result' = [drain_result EXCEPT ![c] = pending_actions]
    /\ drain_pc' = [drain_pc EXCEPT ![c] = "cloned"]
    /\ UNCHANGED <<pending_actions, actions_guard, returned, queued>>

\* get_pending_actions: actions.clear()
DrainClear(c) ==
    /\ drain_pc[c] = "cloned"
    /\ pending_actions' = <<>>
    /\ drain_pc' = [drain_pc EXCEPT ![c] = "cleared"]
    /\ UNCHANGED <<actions_guard, drain_result, returned, queued>>

\* get_pending_actions: result is returned and the guard dropped
DrainReturn(c) ==
    /\ drain_pc[c] = "cleared"
    /\ returned' = [returned EXCEPT ![c] = @ \o drain_result[c]]
    /\ actions_guard' = IF actions_guard = c THEN "free" ELSE actions_guard
    /\ drain_pc' = [drain_pc EXCEPT ![c] = "idle"]
    /\ UNCHANGED <<pending_actions, drain_result, queued>>

-----------------------------------------------------------------------------
(* Memory consolidation (continuous_mind.rs): run_memory_consolidation     *)
(* calls consolidate_memories, which holds last_memory_consolidation for   *)
(* the whole call.  The clock, in seconds, is taken to stand still during  *)
(* a call.                                                                 *)

\* Duration::from_secs(300)
consolidation_interval == 300

\* consolidate_memories up to the try_lock: it returns when fewer than 300
\* seconds have passed, else it tries the affect container for the milestone
ConsolidateTry ==
    /\ pc["consolidation"] = "idle"
    /\ IF instant - last_memory_consolidation < consolidation_interval
       THEN UNCHANGED <<pc, lock_holder, held_copy, attempts>>
       ELSE TryContainer("consolidation", "affective_core", "record_milestone",
                         "milestone_cs", "stamp")
    /\ UNCHANGED <<goalVars, attnVars, affectVars, metaVars, drainVars, selVars,
                   consVars, errVars, containers, followups, commit_result,
                   schedVars, journalVars, error_count, mental_activity_level,
                   health_seen, gen_thought>>

\* core.memory.record_milestone(..) under the guard
ConsolidateDone ==
    /\ pc["consolidation"] = "milestone_cs"
    /\ DropGuard("consolidation", "affective_core", "record_milestone", "stamp")
    /\ UNCHANGED <<goalVars, attnVars, affectVars, metaVars, drainVars, selVars,
                   consVars, errVars, held_copy, followups, commit_result, attempts,
                   schedVars, journalVars, error_count, mental_activity_level,
                   health_seen, gen_thought>>

\* *last_consolidation = now, after the if let whatever its outcome
ConsolidateStamp ==
    /\ pc["consolidation"] = "stamp"
    /\ last_memory_consolidation' = instant
    /\ pc' = [pc EXCEPT !["consolidation"] = "idle"]
    /\ UNCHANGED <<goalVars, attnVars, affectVars, metaVars, drainVars, selVars,
                   errVars, tickVars, schedVars, journalVars, lock_holder,
                   error_count, mental_activity_level, health_seen, gen_thought>>

-----------------------------------------------------------------------------
(* Spontaneous-thought selection (continuous_mind.rs).  The affective      *)
(* values, creativity and social awareness are in hundredths, the          *)
(* metacognitive values in thousandths.  The two random draws are          *)
(* arguments: chance is rand::random::<f64>() in thousandths, pick the     *)
(* index simple_random_choice lands on.                                    *)

\* the vector simple_random_choice picks from
FallbackThoughts == <<"MemoryRecall", "CuriosityDriven", "EmotionalProcessing">>

\* before the first selection
NoSelection == [thought |-> ""]

\* (mutation) a selection that looks at self-awareness before the load
select_awareness_first(affect, metacog, current_goals, creativity, social, chance, pick) ==
    IF metacog.self_awareness_level > 800
    THEN IF affect.valence < -30 THEN "EmotionalProcessing" ELSE "SelfReflection"
    ELSE IF metacog.cognitive_load > 800 THEN "ErrorRecovery"
    ELSE IF creativity > 70 /\ affect.novelty > 50 THEN "CreativeInsight"
    ELSE IF current_goals = 0 /\ social > 60 THEN "ExistentialWondering"
    ELSE IF affect.arousal > 70
    THEN IF current_goals > 0 THEN "GoalReassessment" ELSE "AttentionShift"
    ELSE IF social > 50 /\ chance < 300 THEN "SystemIntegration"
    ELSE FallbackThoughts[pick + 1]

\* ContinuousMind::select_enhanced_thought_type
select_enhanced_thought_type(affect, metacog, current_goals, creativity, social, chance, pick) ==
    IF metacog.cognitive_load > 800 THEN "ErrorRecovery"
    ELSE IF metacog.self_awareness_level > 800
    THEN IF affect.valence < -30 THEN "EmotionalProcessing" ELSE "SelfReflection"
    ELSE IF creativity > 70 /\ affect.novelty > 50 THEN "CreativeInsight"
    ELSE IF current_goals = 0 /\ social > 60 THEN "ExistentialWondering"
    ELSE IF affect.arousal > 70
    THEN IF current_goals > 0 THEN "GoalReassessment" ELSE "AttentionShift"
    ELSE IF social > 50 /\ chance < 300 THEN "SystemIntegration"
    ELSE FallbackThoughts[pick + 1]

\* one call of select_enhanced_thought_type, its arguments kept with its result
SelectThought(affect, metacog, current_goals, creativity, social, chance, pick) ==
    selection' =
        [affect |-> affect, metacog |-> metacog, current_goals |-> current_goals,
         creativity |-> creativity, social_awareness |-> social,
         chance |-> chance, pick |-> pick,
         thought |-> select_enhanced_thought_type(affect, metacog, current_goals,
                                                  creativity, social, chance, pick)]

\* generate_enhanced_spontaneous_thought with its snapshots spelled out: the
\* affect and metacognition states under try_lock (the call returns without
\* them), the number of active goals under try_lock with unwrap_or(0), then
\* the selection on these values and the store of the thought selected
ThoughtsGenerateSelected(creativity, social, chance, pick) ==
    /\ pc["thoughts"] = "idle"
    /\ IF try_lock(lock_holder, "affective_core")
          /\ try_lock(lock_holder, "metacognition")
       THEN LET current_goals ==
                    IF try_lock(lock_holder, "goal_system")
                    THEN Cardinality(ActiveIds(goals)) ELSE 0
            IN  /\ SelectThought(current_state, metacog_state, current_goals,
                                 creativity, social, chance, pick)
                /\ StoreGenerated(selection'.thought, mental_activity_level)
                /\ gen_thought' = selection'.thought
                /\ pc' = [pc EXCEPT !["thoughts"] =
                            IF needs_follow_up(pushed', utc_now)
                            THEN "follow_up" ELSE "analyze"]
       ELSE /\ pc' = [pc EXCEPT !["thoughts"] = "analyze"]
            /\ UNCHANGED <<journalVars, gen_thought, selection>>
    /\ UNCHANGED <<goalVars, attnVars, affectVars, metaVars, drainVars, consVars,
                   errVars, tickVars, schedVars, lock_holder, error_count,
                   mental_activity_level, health_seen>>

-----------------------------------------------------------------------------
(* Initial state: ContinuousMind::new.                                     *)

Init ==
    /\ pending_tasks = <<>>
    /\ running_tasks = <<>>
    /\ completed_tasks = <<>>
    /\ instant = 0
    /\ next_result = None
    /\ spontaneous_thoughts = <<>>
    /\ utc_now = 0
    /\ inserted = 0
    /\ pushed = NoActivity
    /\ recent_result = <<>>
    /\ pc = [p \in Procs |-> "idle"]
    /\ lock_holder = [l \in Locks |-> "free"]
    /\ error_count = 0
    /\ mental_activity_level = 40
    /\ health_seen = [p \in {"monitor", "dispatch"} |->
                         [errors |-> 0, activity |-> 0]]
    /\ gen_thought = ""
    /\ containers = [l \in ContainerLocks |-> <<>>]
    /\ held_copy = [p \in {"main", "consolidation", "user"} |-> <<>>]
    /\ followups = <<>>
    /\ commit_result = "none"
    /\ attempts = [l \in ContainerLocks |-> <<>>]
    /\ goals = <<>>
    /\ current_focus = 0
    /\ achievement_history = <<>>
    /\ form_result = 0
    /\ primary_focus = NoFocus
    /\ background_attention = <<>>
    /\ attention_history = 0
    /\ current_state = baseline_state
    /\ emotional_history = <<>>
    /\ mutations = 0
    /\ metacog_state = DefaultMetacognitiveState
    /\ self_reflections = 0
    /\ meta_mutations = 0
    /\ error_recoveries = 0
    /\ reflection_triggers = [name \in TriggerNames |-> NeverTriggered]
    /\ reflection_queue = <<>>
    /\ monitor_now = 0
    /\ pending_actions = <<>>
    /\ actions_guard = "free"
    /\ drain_pc = [c \in Callers |-> "idle"]
    /\ drain_result = [c \in Callers |-> <<>>]
    /\ returned = [c \in Callers |-> <<>>]
    /\ queued = 0
    /\ last_error_time = NoInstant
    /\ error_types = <<>>
    /\ selection = NoSelection
    /\ last_memory_consolidation = 0

-----------------------------------------------------------------------------
(* SpecSched: the TaskScheduler driven by arbitrary call sequences.        *)

\* The tasks the explored callers pass: the top priority kind with two
\* payloads, one mid-priority kind and the two kinds that tie at 0.3.
InputTasks == {Task("ErrorRecovery", "a"), Task("ErrorRecovery", "b"),
               Task("DeepReflection", ""), Task("SpontaneousThought", ""),
               Task("CreativeIncubation", "")}

SchedSchedule ==
    /\ \E t \in InputTasks : instant < MaxTasks /\ ScheduleTask(t)
    /\ UNCHANGED <<journalVars, sysVars>>
SchedNext     == GetNextTask /\ UNCHANGED <<journalVars, sysVars>>
SchedComplete ==
    /\ \E t \in InputTasks : CompleteTask(t)
    /\ UNCHANGED <<journalVars, sysVars>>

NextSched == SchedSchedule \/ SchedNext \/ SchedComplete

SpecSched == Init /\ [][NextSched]_vars

\* SpecSchedLong: the same three operations on a long run (see QuietTasks).
FillerTask == Task("SpontaneousThought", "")

LongSchedule ==
    \E t \in InputTasks :
        /\ instant < QuietTasks + FreeTasks
        /\ instant < QuietTasks =>
               t = FillerTask /\ pending_tasks = <<>> /\ running_tasks = <<>>
        /\ ScheduleTask(t)
        /\ UNCHANGED <<journalVars, sysVars>>
LongNext     == GetNextTask /\ UNCHANGED <<journalVars, sysVars>>
LongComplete ==
    /\ \E t \in InputTasks : CompleteTask(t)
    /\ UNCHANGED <<journalVars, sysVars>>

NextSchedLong == LongSchedule \/ LongNext \/ LongComplete

SpecSchedLong == Init /\ [][NextSchedLong]_vars

-----------------------------------------------------------------------------
(* SpecJournal: the Activity Journal driven by its two insertion paths,    *)
(* the clock and get_recent_thoughts.                                      *)

\* The thoughts generate_enhanced_spontaneous_thought is explored with: the
\* floor and a high value of mental_activity_level (clamped to [0.1, 1.0]).
FillerThought == <<"MemoryRecall", 10>>

GenInputs == {FillerThought, <<"SelfReflection", 95>>}

\* The thoughts add_spontaneous_thought is explored with: handle_error's and
\* perform_deep_reflection's.
AddInputs == {<<"ErrorRecovery", 60>>, <<"SelfReflection", 90>>}

\* The clock advances in steps of 29 minutes (just inside the recency window).
ClockSteps == {29}

RecentCounts == {1, 3}

JournalGenerate ==
    /\ \E in \in GenInputs :
          /\ inserted < QuietThoughts + FreeThoughts
          /\ inserted < QuietThoughts => in = FillerThought
          /\ StoreGenerated(in[1], in[2])
    /\ UNCHANGED <<schedVars, sysVars>>

JournalAdd ==
    /\ \E in \in AddInputs :
          /\ QuietThoughts <= inserted
          /\ inserted < QuietThoughts + FreeThoughts
          /\ AddSpontaneousThought(in[1], in[2])
    /\ UNCHANGED <<schedVars, sysVars>>

JournalTick ==
    /\ \E d \in ClockSteps :
          /\ QuietThoughts <= inserted
          /\ utc_now + d <= 29 * MaxTicks
          /\ ClockAdvance(d)
    /\ UNCHANGED <<schedVars, sysVars>>

JournalRecent ==
    /\ \E n \in RecentCounts : GetRecentThoughts(n)
    /\ UNCHANGED <<schedVars, sysVars>>

NextJournal == JournalGenerate \/ JournalAdd \/ JournalTick \/ JournalRecent

SpecJournal == Init /\ [][NextJournal]_vars

-----------------------------------------------------------------------------
(* Spec: the thoughts loop, the dispatch loop, the monitoring loop and the *)
(* interactive session running together.                                   *)

\* The main loop's activity updates come first, with a fully active mind
\* (arousal 1, cognitive load 1, ten goals), and stop at any level up to the
\* first one above WarmLevel; the other tasks then run at that level.
WarmLevel == 90

\* pushes to the journal by the thoughts loop
MaxSysThoughts == 5

\* schedule_task calls
MaxSysTasks == 2

BaseActivities == {100}

\* The kinds of thought explored: one per follow-up behaviour that the
\* dispatch loop handles without further input.
SysThoughtKinds == {"SelfReflection", "MemoryRecall"}

Quiet ==
    /\ inserted = 0 /\ instant = 0
    /\ \A p \in Procs : pc[p] = "idle"

SysUpdate ==
    \E b \in BaseActivities :
        /\ Quiet /\ mental_activity_level <= WarmLevel
        /\ UpdateMentalState(b)
SysNotDue    == inserted < MaxSysThoughts /\ ThoughtsNotDue
SysGenerate  ==
    \E th \in SysThoughtKinds :
        inserted < MaxSysThoughts /\ ThoughtsGenerate(th)
SysFollowUp  == instant < MaxSysTasks /\ ThoughtsFollowUp
SysAnalyze   == instant < MaxSysTasks /\ ThoughtsAnalyze
SysHealthRead     == \E p \in {"monitor", "dispatch"} : HealthRead(p)
SysHealthRegulate ==
    \E p \in {"monitor", "dispatch"} : instant < MaxSysTasks /\ HealthRegulate(p)
SysHealthReturn   == \E p \in {"monitor", "dispatch"} : HealthReturn(p)

Next ==
    \/ SysUpdate
    \/ SysNotDue \/ SysGenerate \/ SysFollowUp \/ SysAnalyze
    \/ DispatchTick \/ DispatchAcquire \/ DispatchNext
    \/ DeepReflectionStart \/ DeepReflectionOk \/ DeepReflectionErr
    \/ HandleContainerTask
    \/ SysHealthRead \/ SysHealthRegulate \/ SysHealthReturn
    \/ ReflectStart \/ ReflectDone
    \/ TurnStart \/ TurnAppraised \/ StatusStart \/ StatusDone

Spec == Init /\ [][Next]_vars

-----------------------------------------------------------------------------
(* SpecHealth: the same loops, without the interactive session, while the  *)
(* LLM is out of reach: every call_for_reflection fails.                   *)

\* The activity updates stop at any level up to the first above HealthWarm.
HealthWarm == 70

\* thoughts generated by the thoughts loop
HealthThoughts == 6

\* schedule_task calls
HealthTasks == 8

GeneratedCount ==
    Cardinality({i \in 1..Len(spontaneous_thoughts) :
                    spontaneous_thoughts[i].triggered_by = "natural mental activity"})

HUpdate ==
    \E b \in BaseActivities :
        /\ Quiet /\ mental_activity_level <= HealthWarm
        /\ UpdateMentalState(b)
HGenerate == GeneratedCount < HealthThoughts /\ ThoughtsGenerate("SelfReflection")
HFollowUp == instant < HealthTasks /\ ThoughtsFollowUp
HAnalyze  == instant < HealthTasks /\ ThoughtsAnalyze
HHealthRead     == \E p \in {"monitor", "dispatch"} : HealthRead(p)
HHealthEscalate ==
    \E p \in {"monitor", "dispatch"} : instant < HealthTasks /\ HealthEscalate(p)
HHealthReturn   == \E p \in {"monitor", "dispatch"} : HealthReturn(p)

NextHealth ==
    \/ HUpdate
    \/ HGenerate \/ HFollowUp \/ HAnalyze
    \/ DispatchTick \/ DispatchAcquire \/ DispatchNext
    \/ DeepReflectionStart \/ DeepReflectionErr \/ HandleErrorRecovery
    \/ HHealthRead \/ HHealthEscalate \/ HHealthReturn

SpecHealth == Init /\ [][NextHealth]_vars

-----------------------------------------------------------------------------
(* SpecTick: the main loop and a conversational turn working on the        *)
(* containers at the same time, with thoughts arriving in the journal.     *)

MaxTries == 4
TickThoughts == 1
TickWarm == 80

\* the try_lock calls made so far on the containers; ticks and turns begin
\* while there are fewer than MaxTries of them
Tries ==
    Len(attempts["affective_core"]) + Len(attempts["metacognition"])
    + Len(attempts["goal_system"]) + Len(attempts["attention_system"])

\* nothing has run yet on the containers
Untried ==
    /\ \A p \in Procs : pc[p] = "idle"
    /\ attempts = [l \in ContainerLocks |-> <<>>]

\* earlier ticks, before anything else ran, have raised the activity level
TUpdate ==
    \E base \in BaseActivities :
        /\ Quiet /\ Untried
        /\ mental_activity_level < TickWarm
        /\ UpdateMentalState(base)

\* perform_deep_reflection's thought and a generated thought have reached the
\* journal before the ticks and the turns that are followed
TReflectionThought ==
    /\ Untried
    /\ inserted < TickThoughts
    /\ AddSpontaneousThought("SelfReflection", 90)
    /\ UNCHANGED <<schedVars, sysVars>>

TGeneratedThought ==
    /\ Untried
    /\ inserted < TickThoughts
    /\ mental_activity_level >= TickWarm
    /\ StoreGenerated("GoalReassessment", mental_activity_level)
    /\ UNCHANGED <<schedVars, sysVars>>

TMainTick == Tries < MaxTries /\ MainTick
TRegulate == \E due \in BOOLEAN : RegulateEmotionsTry(due)
TMentalState == \E base \in BaseActivities : TickMentalState(base)
TTurn == Tries < MaxTries /\ AttentionShiftTry
TAppraised == \E ok \in BOOLEAN : EmotionAppraised(ok)

NextTick ==
    \/ TUpdate \/ TReflectionThought \/ TGeneratedThought
    \/ TMainTick
    \/ UpdateAttentionTry \/ UpdateAttentionDone
    \/ DecayMetacognitionTry \/ DecayMetacognitionDone
    \/ TRegulate \/ RegulateEmotionsDone
    \/ TMentalState
    \/ PendingThoughtTry \/ PendingThoughtDone
    \/ TTurn \/ AttentionShiftDone
    \/ CloneMemory
    \/ TAppraised \/ EmotionCommitDone
    \/ RecordProcessTry \/ RecordProcessDone

SpecTick == Init /\ [][NextTick]_vars

-----------------------------------------------------------------------------
(* SpecGoals: the GoalSystem driven by arbitrary call sequences.           *)

\* the first QuietGoals goals are formed one after the other, with no call
\* but determine_focus among them, so that the Active goals come close to
\* max_active_goals;
\* FreeGoals more are then formed among the other calls
QuietGoals == 9
FreeGoals == 2

NeutralAffect == AffectiveState(0, 30, 10, 0)
ExcitedAffect == AffectiveState(50, 80, 20, 60)

\* the k-th quiet goal: each one more important than the ones before it
QuietGoal(k) == <<"Epistemic", 80 + k, ExcitedAffect>>
GoalInputs ==
    {<<"Epistemic", prio, ExcitedAffect>> : prio \in {90, 50, 20}}
    \cup {<<"Homeostatic", 50, NeutralAffect>>,
          <<"Epistemic", 90, NeutralAffect>>}
ProgressDeltas == {100}

\* completions recorded in achievement_history
MaxAchievements == 1

\* the goals update_goal_progress is called for: the oldest one, the ones
\* formed after the quiet ones, and an id no goal has
ProgressIds == {1} \cup (QuietGoals + 1 .. Len(goals) + 1)

GoalsFormQuiet ==
    /\ Len(goals) < QuietGoals
    /\ achievement_history = <<>>
    /\ FormGoal(QuietGoal(Len(goals) + 1)[1], QuietGoal(Len(goals) + 1)[2],
                QuietGoal(Len(goals) + 1)[3])
    /\ UNCHANGED <<coreVars, attnVars, affectVars, metaVars, drainVars>>

GoalsForm ==
    \E inp \in GoalInputs :
        /\ Len(goals) >= QuietGoals
        /\ Len(goals) < QuietGoals + FreeGoals
        /\ FormGoal(inp[1], inp[2], inp[3])
        /\ UNCHANGED <<coreVars, attnVars, affectVars, metaVars, drainVars>>

GoalsProgress ==
    \E goal_id \in ProgressIds, delta \in ProgressDeltas :
        /\ Len(goals) >= QuietGoals
        /\ Len(achievement_history) < MaxAchievements
        /\ UpdateGoalProgress(goal_id, delta)
        /\ UNCHANGED <<coreVars, attnVars, affectVars, metaVars, drainVars>>

GoalsFocus ==
    /\ DetermineFocus
    /\ UNCHANGED <<coreVars, attnVars, affectVars, metaVars, drainVars>>

NextGoals == GoalsFormQuiet \/ GoalsForm \/ GoalsProgress \/ GoalsFocus

SpecGoals == Init /\ [][NextGoals]_vars

-----------------------------------------------------------------------------
(* SpecAttention: the AttentionSystem driven by arbitrary call sequences.  *)

\* the first QuietTargets calls are focus_on calls that put one target each
\* in the background; MaxShifts is the number of focus shifts recorded in all
QuietTargets == 4
MaxShifts == 7

QuietTargetNames ==
    <<"SelfGoals", "MemoryRecall", "SocialDynamics", "EnvironmentalAwareness",
      "SelfEmotion", "UserEmotion">>
FreeTargets == {"ProblemSolving", "CreativeThinking", "Learning", "SelfGoals"}
FocusIntensities == {2000, 5000, 8000}
StimuliInputs ==
    {<<<<"ProblemSolving", 8000>>, <<"UserEmotion", 7000>>,
       <<"SelfEmotion", 4000>>>>,
     <<<<"Learning", 10000>>, <<"SelfEmotion", 4000>>>>}
UpdateMinutes == {50}

AttnFocusQuiet ==
    /\ attention_history < QuietTargets
    /\ FocusOn(QuietTargetNames[attention_history + 1], 4000)
    /\ UNCHANGED <<schedVars, journalVars, pc, lock_holder, error_count,
                   mental_activity_level, health_seen, gen_thought, tickVars,
                   goalVars, affectVars, metaVars, drainVars, errVars, selVars,
                   consVars>>

AttnFocus ==
    \E target \in FreeTargets, intensity \in FocusIntensities :
        /\ attention_history >= QuietTargets
        /\ attention_history < MaxShifts
        /\ FocusOn(target, intensity)
        /\ UNCHANGED <<coreVars, goalVars, affectVars, metaVars, drainVars>>

AttnEvaluate ==
    \E stimuli \in StimuliInputs :
        /\ attention_history >= QuietTargets
        /\ attention_history < MaxShifts - 1
        /\ EvaluateAttentionShift(stimuli)
        /\ UNCHANGED <<coreVars, goalVars, affectVars, metaVars, drainVars>>

AttnUpdate ==
    \E minutes \in UpdateMinutes :
        /\ attention_history >= QuietTargets
        /\ primary_focus # NoFocus \/ DOMAIN background_attention # {}
        /\ AttentionUpdate(minutes)
        /\ UNCHANGED <<coreVars, goalVars, affectVars, metaVars, drainVars>>

NextAttention == AttnFocusQuiet \/ AttnFocus \/ AttnEvaluate \/ AttnUpdate

SpecAttention == Init /\ [][NextAttention]_vars

-----------------------------------------------------------------------------
(* SpecAffect: the AffectiveCore under arbitrary sequences of mutations.   *)

\* the number of mutations followed
MaxMutations == 3

\* the emotions appraised: every variant process_emotion tells apart, at an
\* ordinary intensity and at one above 1 (the appraisal does not clamp it)
EmotionKinds ==
    {"Joy", "Pride", "Gratitude", "Satisfaction", "Relief", "Distress",
     "Fear", "Anger", "Shame", "Disappointment", "Hope", "Love"}
EmotionIntensities == {100, 250}

AffectProcess ==
    \E kind \in EmotionKinds, intensity \in EmotionIntensities :
        /\ mutations < MaxMutations
        /\ ProcessEmotion(OccEmotion(kind, intensity))
        /\ UNCHANGED <<coreVars, goalVars, attnVars, metaVars, drainVars>>

AffectRegulate ==
    /\ mutations < MaxMutations
    /\ RegulateEmotion
    /\ UNCHANGED <<coreVars, goalVars, attnVars, metaVars, drainVars>>

NextAffect == AffectProcess \/ AffectRegulate

SpecAffect == Init /\ [][NextAffect]_vars

-----------------------------------------------------------------------------
(* SpecMeta: the MetacognitiveMonitor under arbitrary sequences of         *)
(* record_process and decay_over_time calls.                               *)

\* the number of mutations followed
MaxMetaMutations == 3

\* every variant; the payloads tried for the variants whose payload reaches
\* the state: one in [0,1], one above it, one below it
PlainProcesses ==
    {"EmotionalProcessing", "MemoryRetrieval", "GoalFormation",
     "AttentionShift", "PredictiveThinking", "ValueConflict", "ErrorRecovery"}
PayloadProcesses == {"SelfReflection", "CreativeThinking", "SocialInteraction"}
Payloads == {900, 3000, -2000}

MetaRecordPlain ==
    \E kind \in PlainProcesses :
        /\ meta_mutations < MaxMetaMutations
        /\ RecordProcess(CognitiveProcess(kind, 0))
        /\ UNCHANGED <<coreVars, goalVars, attnVars, affectVars, drainVars>>

MetaRecordPayload ==
    \E kind \in PayloadProcesses, payload \in Payloads :
        /\ meta_mutations < MaxMetaMutations
        /\ RecordProcess(CognitiveProcess(kind, payload))
        /\ UNCHANGED <<coreVars, goalVars, attnVars, affectVars, drainVars>>

MetaDecay ==
    /\ meta_mutations < MaxMetaMutations
    /\ DecayOverTime
    /\ UNCHANGED <<coreVars, goalVars, attnVars, affectVars, drainVars>>

NextMeta == MetaRecordPlain \/ MetaRecordPayload \/ MetaDecay

SpecMeta == Init /\ [][NextMeta]_vars

-----------------------------------------------------------------------------
(* SpecTriggers: record_process calls with the clock moving between them.  *)
(* The clock moves by a second short of five minutes, by five minutes or   *)
(* by a second more, so that the cooldowns of ten and of fifteen minutes   *)
(* are met from either side.                                               *)

MaxTriggerCalls == 6
MaxSeconds == 905

TriggerProcesses ==
    {CognitiveProcess("ValueConflict", 0), CognitiveProcess("MemoryRetrieval", 0)}
TriggerClockSteps == {299, 300, 301}

TrigRecord ==
    \E process \in TriggerProcesses :
        /\ meta_mutations < MaxTriggerCalls
        /\ RecordProcess(process)
        /\ UNCHANGED <<coreVars, goalVars, attnVars, affectVars, drainVars>>

TrigAdvance ==
    \E d \in TriggerClockSteps :
        /\ monitor_now + d <= MaxSeconds
        /\ monitor_now' = monitor_now + d
        /\ UNCHANGED <<metacog_state, self_reflections, meta_mutations,
                       error_recoveries, reflection_triggers, reflection_queue>>
        /\ UNCHANGED <<coreVars, goalVars, attnVars, affectVars, drainVars>>

NextTriggers == TrigRecord \/ TrigAdvance

SpecTriggers == Init /\ [][NextTriggers]_vars

-----------------------------------------------------------------------------
(* SpecSelect: select_enhanced_thought_type called with arguments on both  *)
(* sides of each threshold.                                                *)

SelectLoads == {800, 801}
SelectAwareness == {800, 1000}
SelectValences == {-31, -30}
SelectNovelties == {50, 51}
SelectArousals == {70, 100}
SelectCreativities == {70, 100}
SelectSocial == {50, 51, 61}
SelectGoals == {0, 1}
SelectChances == {299, 300}

SelSelect ==
    /\ \E load \in SelectLoads, aware \in SelectAwareness, valence \in SelectValences,
          novelty \in SelectNovelties, arousal \in SelectArousals,
          creativity \in SelectCreativities, social \in SelectSocial,
          current_goals \in SelectGoals, chance \in SelectChances,
          pick \in 0..(Len(FallbackThoughts) - 1) :
            SelectThought(AffectiveState(valence, arousal, 0, novelty),
                          [DefaultMetacognitiveState EXCEPT
                              !.cognitive_load = load,
                              !.self_awareness_level = aware],
                          current_goals, creativity, social, chance, pick)
    /\ UNCHANGED <<schedVars, journalVars, pc, lock_holder, error_count,
                   mental_activity_level, health_seen, gen_thought, tickVars, errVars,
                   goalVars, attnVars, affectVars, metaVars, drainVars, consVars>>

NextSelect == SelSelect

SpecSelect == Init /\ [][NextSelect]_vars

-----------------------------------------------------------------------------
(* SpecConsolidate: the consolidation loop next to the main loop, with     *)
(* the clock moving by five minutes between calls of consolidate_memories. *)

MaxConsolidationSeconds == 600

ConsAdvance ==
    /\ pc["consolidation"] = "idle"
    /\ instant + consolidation_interval <= MaxConsolidationSeconds
    /\ instant' = instant + consolidation_interval
    /\ UNCHANGED <<pending_tasks, running_tasks, completed_tasks, next_result>>
    /\ UNCHANGED <<journalVars, sysVars>>

ConsConsolidate == Tries < MaxTries /\ ConsolidateTry

NextConsolidate ==
    \/ ConsAdvance
    \/ ConsConsolidate \/ ConsolidateDone \/ ConsolidateStamp
    \/ TMainTick
    \/ UpdateAttentionTry \/ UpdateAttentionDone
    \/ DecayMetacognitionTry \/ DecayMetacognitionDone
    \/ TRegulate \/ RegulateEmotionsDone
    \/ TMentalState
    \/ PendingThoughtTry

SpecConsolidate == Init /\ [][NextConsolidate]_vars

-----------------------------------------------------------------------------
(* SpecGoalCount: goals being formed, the main loop following up a         *)
(* GoalReassessment thought under the goal_system guard, and the thought   *)
(* task generating one thought from its snapshots.                         *)

MaxCountedGoals == 2
CountSocial == {40, 61}

CountFormGoal ==
    /\ Len(goals) < MaxCountedGoals
    /\ try_lock(lock_holder, "goal_system")
    /\ FormGoal("Epistemic", 90, ExcitedAffect)
    /\ UNCHANGED <<coreVars, attnVars, affectVars, metaVars, drainVars>>

CountGenerate ==
    \E social \in CountSocial : ThoughtsGenerateSelected(50, social, 500, 0)

NextGoalCount ==
    \/ TUpdate \/ TGeneratedThought
    \/ TMainTick
    \/ UpdateAttentionTry \/ UpdateAttentionDone
    \/ DecayMetacognitionTry \/ DecayMetacognitionDone
    \/ TRegulate \/ RegulateEmotionsDone
    \/ TMentalState
    \/ PendingThoughtTry \/ PendingThoughtDone
    \/ CountFormGoal \/ CountGenerate

SpecGoalCount == Init /\ [][NextGoalCount]_vars

-----------------------------------------------------------------------------
(* SpecActions: two callers of get_pending_actions and the producer.       *)

\* the number of actions pushed
MaxActions == 3

ActionsPush ==
    /\ queued < MaxActions
    /\ PushAction
    /\ UNCHANGED <<coreVars, goalVars, attnVars, affectVars, metaVars>>

ActionsWrite ==
    \E c \in Callers :
        /\ DrainWrite(c)
        /\ UNCHANGED <<coreVars, goalVars, attnVars, affectVars, metaVars>>

ActionsClone ==
    \E c \in Callers :
        /\ DrainClone(c)
        /\ UNCHANGED <<coreVars, goalVars, attnVars, affectVars, metaVars>>

ActionsClear ==
    \E c \in Callers :
        /\ DrainClear(c)
        /\ UNCHANGED <<coreVars, goalVars, attnVars, affectVars, metaVars>>

ActionsReturn ==
    \E c \in Callers :
        /\ DrainReturn(c)
        /\ UNCHANGED <<coreVars, goalVars, attnVars, affectVars, metaVars>>

NextActions ==
    ActionsPush \/ ActionsWrite \/ ActionsClone \/ ActionsClear \/ ActionsReturn

SpecActions == Init /\ [][NextActions]_vars

-----------------------------------------------------------------------------
(* SpecErrors: handle_error called for one failure after another.  The     *)
(* first QuietErrors failures are network errors, the FreeErrors after     *)
(* them are of either category.                                            *)

QuietErrors == 18
FreeErrors == 6

ErrHandle ==
    /\ error_count < QuietErrors + FreeErrors
    /\ \E e \in LlmErrors :
        /\ error_count < QuietErrors => e = "NetworkError"
        /\ HandleError(e)
    /\ UNCHANGED <<schedVars, pc, lock_holder, mental_activity_level, health_seen,
                   gen_thought, tickVars, compVars>>

NextErrors == ErrHandle

SpecErrors == Init /\ [][NextErrors]_vars

-----------------------------------------------------------------------------
(* Claims about the locks.                                                 *)

\* C1: no task waits for the task_scheduler lock while holding it itself: the
\* dispatch tick, which keeps the lock while a handler runs, never runs a
\* handler that waits for that lock.
C1_NoHandlerWaitsForHeldLock ==
    \A p \in Procs :
        pc[p] \in SchedulerWaits => lock_holder["task_scheduler"] # p

\* C2: while perform_deep_reflection awaits call_for_reflection, the task
\* awaiting it holds no lock, neither a container's nor the scheduler's.
C2_ReflectionCallHoldsNoLock ==
    pc["dispatch"] = "llm" => \A l \in Locks : lock_holder[l] # "dispatch"

\* C3: no container lock is held across a suspension point: whenever every
\* task stands at a suspension point, the four containers are free.
C3_ContainersFreeAtSuspension ==
    \A l \in ContainerLocks : lock_holder[l] = "free"

\* C7: a health check that saw error_count above the threshold returns with
\* error_count reset to 0.
C7_EscalationResetsErrorCount ==
    [][\A p \in {"monitor", "dispatch"} :
          (/\ pc[p] = "health_done" /\ pc'[p] # "health_done"
           /\ health_seen[p].errors > error_threshold)
          => error_count' = 0]_vars

-----------------------------------------------------------------------------
(* Claims about the TaskScheduler.                                         *)

Range(s) == {s[i] : i \in 1..Len(s)}

IsSortedByPriority(s) ==
    \A i, j \in 1..Len(s) : i < j => priority(s[i].task) >= priority(s[j].task)

\* C4: whatever the sequence of schedule_task, get_next_task and
\* complete_task calls, running_tasks never holds more than max_concurrent
\* (3) tasks.
C4_RunningWithinCap == Len(running_tasks) <= max_concurrent

\* a get_next_task call was refused with the cap reached and work pending
C4_Witness ==
    /\ Len(running_tasks) = max_concurrent
    /\ pending_tasks # <<>>
    /\ next_result = None

\* C5: after every schedule_task and every get_next_task pending_tasks is
\* sorted by non-increasing priority, and the task a get_next_task call moves
\* to running_tasks has a priority no pending task exceeded.
C5_PendingSortedDispatchMax ==
    [][ /\ IsSortedByPriority(pending_tasks')
        /\ Len(pending_tasks') < Len(pending_tasks) =>
              \A i \in 1..Len(pending_tasks) :
                  priority(running_tasks'[Len(running_tasks')].task)
                      >= priority(pending_tasks[i].task) ]_vars

\* the sort moved a later scheduled task ahead of an earlier one, and a
\* dispatch has taken place
C5_Witness ==
    /\ next_result.some
    /\ \E i, j \in 1..Len(pending_tasks) :
           /\ i < j
           /\ pending_tasks[i].at > pending_tasks[j].at
           /\ priority(pending_tasks[i].task) > priority(pending_tasks[j].task)

\* C6: tasks only move forward. An entry enters pending_tasks only freshly
\* stamped by schedule_task, leaves pending_tasks only into running_tasks,
\* leaves running_tasks only into completed_tasks, leaves completed_tasks only
\* as the oldest entry of a full buffer, and no entry is ever in two places.
C6_TasksMoveForward ==
    [][ LET P  == Range(pending_tasks)    P2 == Range(pending_tasks')
            R  == Range(running_tasks)    R2 == Range(running_tasks')
            C  == Range(completed_tasks)  C2 == Range(completed_tasks')
        IN  /\ \A e \in P2 \ P : e.at = instant /\ instant' > instant
            /\ (P \ P2) \subseteq (R2 \ R)
            /\ (R2 \ R) \subseteq (P \ P2)
            /\ (R \ R2) \subseteq (C2 \ C)
            /\ (C2 \ C) \subseteq (R \ R2)
            /\ (C \ C2) # {} =>
                   /\ C \ C2 = {Head(completed_tasks)}
                   /\ Len(completed_tasks) = completed_cap
                   /\ completed_tasks' = Append(Tail(completed_tasks),
                                                 completed_tasks'[completed_cap])
            /\ Len(pending_tasks') + Len(running_tasks') + Len(completed_tasks')
                   = Cardinality(P2 \cup R2 \cup C2) ]_vars

\* the completed buffer is full, its oldest entries have been evicted, and
\* tasks are pending and running
C6_Witness ==
    /\ Len(completed_tasks) = completed_cap
    /\ completed_tasks[1].at > 0
    /\ pending_tasks # <<>>
    /\ running_tasks # <<>>

\* the running entries of t's kind, by position
KindHits(run, t) == {i \in 1..Len(run) : run[i].task.kind = t.kind}

Last(s) == s[Len(s)]

\* C11: complete_task is idempotent: in every reachable scheduler state, a
\* second complete_task call for the same task leaves running_tasks and
\* completed_tasks as the first call left them.
C11_CompleteTwiceIsNoOp ==
    \A t \in InputTasks :
        LET once  == complete_task(running_tasks, completed_tasks, t)
            twice == complete_task(once.running, once.completed, t)
        IN  twice = once

\* C12: a complete_task call for a kind that has no entry in running_tasks
\* changes none of pending_tasks, running_tasks and completed_tasks (no step
\* that changes one of them is such a call).
C12_CompleteUnknownKindIsNoOp ==
    [][ \/ UNCHANGED <<pending_tasks, running_tasks, completed_tasks>>
        \/ \A t \in InputTasks :
              ~(KindHits(running_tasks, t) = {} /\ CompleteTask(t)) ]_vars

\* tasks are running, none of them an ErrorRecovery, and nothing has been
\* completed: a completion of an ErrorRecovery finds no entry
C12_Witness ==
    /\ Len(running_tasks) = 2
    /\ KindHits(running_tasks, Task("ErrorRecovery", "a")) = {}
    /\ completed_tasks = <<>>
    /\ pending_tasks = <<>>

\* C13: complete_task matches by kind only, whatever the payload, and moves
\* exactly the first running entry of that kind to the end of
\* completed_tasks; every other running entry keeps its relative position.
C13_CompleteMovesFirstOfKind ==
    [][ \A t \in InputTasks :
          (KindHits(running_tasks, t) # {} /\ CompleteTask(t)) =>
            LET hits == KindHits(running_tasks, t)
                pos  == CHOOSE i \in hits : \A j \in hits : i <= j
            IN  /\ Len(running_tasks') = Len(running_tasks) - 1
                /\ \A i \in 1..Len(running_tasks') :
                       running_tasks'[i] =
                           IF i < pos THEN running_tasks[i]
                           ELSE running_tasks[i + 1]
                /\ Last(completed_tasks') = running_tasks[pos]
                /\ pending_tasks' = pending_tasks ]_vars

\* of two running ErrorRecovery tasks with different payloads, behind a
\* running DeepReflection, the one dispatched first has been completed; the
\* other two kept their order
C13_Witness ==
    /\ Len(running_tasks) = 2 /\ completed_tasks # <<>>
    /\ running_tasks[1].task.kind = "DeepReflection"
    /\ running_tasks[2].task.kind = "ErrorRecovery"
    /\ Last(completed_tasks).task.kind = "ErrorRecovery"
    /\ Last(completed_tasks).task.arg # running_tasks[2].task.arg
    /\ Last(completed_tasks).at < running_tasks[2].at
    /\ running_tasks[1].at < Last(completed_tasks).at

\* C14: get_next_task with max_concurrent tasks running, or with nothing
\* pending, returns None and changes nothing; otherwise it moves exactly the
\* head of pending_tasks to the end of running_tasks and returns its task.
C14_NextTaskFrame ==
    [][ GetNextTask =>
          IF Len(running_tasks) >= max_concurrent \/ pending_tasks = <<>>
          THEN /\ next_result' = None
               /\ UNCHANGED <<pending_tasks, running_tasks, completed_tasks>>
          ELSE /\ next_result' = Some(pending_tasks[1].task)
               /\ pending_tasks' = Tail(pending_tasks)
               /\ running_tasks' = Append(running_tasks, pending_tasks[1])
               /\ completed_tasks' = completed_tasks ]_vars

\* a dispatch onto a busy scheduler has just filled the last free slot, and
\* work is still pending
C14_Witness ==
    /\ next_result.some
    /\ Len(running_tasks) = max_concurrent
    /\ Last(running_tasks).task = next_result.task
    /\ pending_tasks # <<>>

\* C15: pending tasks of equal priority stand in scheduling order.
C15_TiesInSchedulingOrder ==
    \A i, j \in 1..Len(pending_tasks) :
        (i < j /\ priority(pending_tasks[i].task) = priority(pending_tasks[j].task))
        => pending_tasks[i].at < pending_tasks[j].at

\* CreativeIncubation and SpontaneousThought, both 0.3, are pending in the
\* order they were scheduled in, behind a task scheduled after them, and a
\* dispatch has taken place
C15_Witness ==
    /\ Len(pending_tasks) = 3
    /\ pending_tasks[2].task.kind = "CreativeIncubation"
    /\ pending_tasks[3].task.kind = "SpontaneousThought"
    /\ pending_tasks[1].at > pending_tasks[3].at
    /\ next_result.some

\* C16: completed_tasks never holds more than 50 entries, and a completion
\* that arrives with the buffer full evicts exactly the oldest entry: the
\* others keep their order, followed by the new one.
C16_CompletedBounded ==
    [][ /\ Len(completed_tasks') <= completed_cap
        /\ (completed_tasks' # completed_tasks
                /\ Len(completed_tasks) = completed_cap)
           => /\ Len(completed_tasks') = completed_cap
              /\ SubSeq(completed_tasks', 1, completed_cap - 1)
                     = Tail(completed_tasks)
              /\ Last(completed_tasks') \in Range(running_tasks) ]_vars

\* two completions have arrived with the buffer full
C16_Witness ==
    /\ Len(completed_tasks) = completed_cap
    /\ completed_tasks[1].at = 2

-----------------------------------------------------------------------------
(* Claims about the Activity Journal.                                      *)

\* C8: whenever a push makes the journal exceed 100 entries, the 50 entries
\* kept are entries of highest relevance at that time: no dropped entry is
\* strictly more relevant than a kept one; in particular one entry of
\* intensity 0.95 stamped now among 100 entries of intensity 0.1 aged 29
\* minutes is kept.
C8_TruncationKeepsMostRelevant ==
    [][ Len(spontaneous_thoughts') < Len(spontaneous_thoughts) =>
        LET all     == Range(spontaneous_thoughts) \cup {pushed'}
            kept    == Range(spontaneous_thoughts')
            dropped == all \ kept
        IN  /\ kept \subseteq all
            /\ Cardinality(kept) = journal_keep
            /\ Len(spontaneous_thoughts') = journal_keep
            /\ \A d \in dropped : \A k \in kept :
                   relevance_score(d, utc_now) <= relevance_score(k, utc_now)
            /\ \A h \in all :
                   ( /\ h.intensity = 95 /\ h.timestamp = utc_now
                     /\ \A o \in all \ {h} :
                            o.intensity = 10 /\ utc_now - o.timestamp = 29 )
                   => h \in kept ]_vars

\* the 101st push has just truncated the journal: the pushed entry has
\* intensity 0.95, the hundred before it had intensity 0.1 and are 29 minutes
\* old, and the pushed entry is among the 50 kept
C8_Witness ==
    /\ inserted = journal_cap + 1
    /\ Len(spontaneous_thoughts) = journal_keep
    /\ pushed.intensity = 95 /\ pushed.timestamp = utc_now
    /\ pushed \in Range(spontaneous_thoughts)
    /\ \A o \in Range(spontaneous_thoughts) \ {pushed} :
           o.intensity = 10 /\ utc_now - o.timestamp = 29

\* C9: the journal never holds more than 100 entries, whichever path pushed
\* last, and a push onto a journal of 100 leaves 50.
C9_JournalBounded ==
    [][ /\ Len(spontaneous_thoughts') <= journal_cap
        /\ (Len(spontaneous_thoughts) = journal_cap /\ inserted' = inserted + 1)
               => Len(spontaneous_thoughts') = journal_keep ]_vars

\* add_spontaneous_thought has just pushed the 101st entry and 50 are left
C9_Witness ==
    /\ inserted = journal_cap + 1
    /\ pushed.triggered_by = "system_generated"
    /\ Len(spontaneous_thoughts) = journal_keep

\* the n entries pushed last among those the journal holds
MostRecentlyInserted(thoughts, n) ==
    {e \in Range(thoughts) :
        Cardinality({f \in Range(thoughts) : f.ins > e.ins}) < n}

\* C10: get_recent_thoughts(n) returns the n most recently inserted entries
\* of the journal, also after a truncation pass has run.
C10_RecentAreLastInserted ==
    recent_result # <<>> =>
        Range(recent_result[2])
            = MostRecentlyInserted(spontaneous_thoughts, recent_result[1])

-----------------------------------------------------------------------------
(* Claims about the containers.                                            *)

\* the operations of the try_lock calls on l that were granted, in the order
\* of the calls
GrantedOps(l) ==
    LET granted == SelectSeq(attempts[l], LAMBDA a : a.got)
    IN  [i \in 1..Len(granted) |-> granted[i].op]

\* how many times op stands in the sequence s
Occurrences(s, op) == Cardinality({i \in 1..Len(s) : s[i] = op})

ContainerOps == {"update", "decay_over_time", "regulate_emotion",
                 "record_process", "determine_focus",
                 "evaluate_attention_shift", "process_emotion"}

C18_AppraisedEmotionCommitted ==
    commit_result # "skipped"

\* the sub-steps of a tick, a guarded block included
MainSubStep ==
    \/ UpdateAttentionTry \/ UpdateAttentionDone
    \/ DecayMetacognitionTry \/ DecayMetacognitionDone
    \/ (\E due \in BOOLEAN : RegulateEmotionsTry(due)) \/ RegulateEmotionsDone
    \/ (\E base \in BaseActivities : TickMentalState(base))
    \/ PendingThoughtTry \/ PendingThoughtDone

\* where the tick stands after the try_lock of a sub-step was refused
SubStepAfter(at) ==
    CASE at = "attention" -> "decay"
      [] at = "decay" -> "regulate"
      [] at = "regulate" -> "mental_state"
      [] at = "pending" -> "pending"
      [] OTHER -> "idle"

\* C19: within a tick of the main loop a refused try_lock skips only the
\* sub-step that asked for it. Whether a sub-step's try_lock is granted
\* depends on its own container's guard alone; a refused one leaves every
\* container, every guard and the activity level as they were and takes the
\* tick to the next sub-step (in process_pending_thoughts, to the next
\* thought); the mental-state update changes no container and is followed by
\* the pending thoughts whether it was made or not; and whoever holds the
\* guards, the main loop always has a step to take: it never waits for a
\* container and never ends.
C19_SkipOnlyThatSubStep ==
    /\ [](ENABLED (MainTick \/ MainSubStep))
    /\ [][/\ \A l \in ContainerLocks :
               (/\ Len(attempts'[l]) = Len(attempts[l]) + 1
                /\ Last(attempts'[l]).by = "main")
               => /\ Last(attempts'[l]).got = (lock_holder[l] = "free")
                  /\ ~Last(attempts'[l]).got
                     => /\ UNCHANGED <<containers, lock_holder, held_copy,
                                       mental_activity_level>>
                        /\ pc'["main"] = SubStepAfter(pc["main"])
                        /\ pc["main"] = "pending"
                           => followups' = Tail(followups)
          /\ (pc["main"] = "mental_state" /\ pc'["main"] # "mental_state")
             => /\ pc'["main"] = "pending"
                /\ UNCHANGED <<containers, lock_holder>>
                /\ mental_activity_level' # mental_activity_level
                   => /\ lock_holder["affective_core"] = "free"
                      /\ lock_holder["metacognition"] = "free"]_vars

\* in one tick the attention update was refused, the decay of metacognition
\* was made and the regulation was refused again
C19_Witness ==
    /\ pc["main"] = "mental_state"
    /\ \A l \in {"attention_system", "metacognition", "affective_core"} :
           attempts[l] # <<>>
    /\ Last(attempts["attention_system"]) = Attempt("update", "main", FALSE)
    /\ Last(attempts["metacognition"]) = Attempt("decay_over_time", "main", TRUE)
    /\ Last(attempts["affective_core"]) = Attempt("regulate_emotion", "main", FALSE)
    /\ containers["metacognition"] # <<>>
    /\ Last(containers["metacognition"]) = "decay_over_time"

-----------------------------------------------------------------------------
(* Claims about collaborator failures.                                     *)

\* the steps of a dispatch tick that holds the task_scheduler guard
DispatchStep ==
    \/ DispatchNext
    \/ DeepReflectionStart \/ DeepReflectionOk \/ DeepReflectionErr
    \/ HandleErrorRecovery \/ HandleContainerTask
    \/ HealthRead("dispatch") \/ HealthEscalate("dispatch")
    \/ HealthRegulate("dispatch") \/ HealthReturn("dispatch")

\* What the failure of call_for_reflection does by itself: the error is
\* counted once, the DeepReflection task leaves running_tasks for
\* completed_tasks, and the tick is back at its loop with the guard in hand.
DeepReflectionFailureAbsorbed ==
    [][(pc["dispatch"] = "llm" /\ pc'["dispatch"] # "llm")
       => /\ error_count' = error_count + 1
          /\ next_result.task.kind = "DeepReflection"
          /\ Len(running_tasks') = Len(running_tasks) - 1
          /\ Last(completed_tasks').task.kind = "DeepReflection"
          /\ pc'["dispatch"] = "loop"
          /\ lock_holder'["task_scheduler"] = "dispatch"
          /\ Last(spontaneous_thoughts').thought = "ErrorRecovery"]_vars

\* C20: after failures of the collaborator call in dispatched DeepReflection
\* tasks, each caught and counted, the dispatch tick goes on to the tasks
\* that remain and finishes: while errors are on the count and the tick
\* holds the scheduler, the tick always has a step to take.
C20_TickFinishesAfterFailure ==
    (error_count > 0 /\ lock_holder["task_scheduler"] = "dispatch")
        => ENABLED DispatchStep

-----------------------------------------------------------------------------
(* Claims about the GoalSystem.                                            *)

\* the goals that a step takes from Active to Abandoned
Demoted ==
    {id \in 1..Len(goals) :
        goals[id].status = "Active" /\ goals'[id].status = "Abandoned"}

\* C21: when form_goal admits a goal at the cap, the goal that ends up
\* Abandoned is the one of lowest priority among the Active goals and the
\* new goal: no goal that is Active afterwards has a lower priority than
\* the goal that was abandoned.
C21_AbandonsLowestOfAll ==
    [][\A id \in Demoted :
          \A other \in ActiveIds(goals') :
              goals[id].priority <= goals'[other].priority]_vars

\* C22: current_focus is unset or the id of a goal whose status is Active.
C22_FocusIsActive ==
    current_focus = 0 \/ goals[current_focus].status = "Active"

\* C23: the Active goals never number more than max_active_goals, and a
\* form_goal call that admits a goal with the count at the cap takes exactly
\* one goal from Active to Abandoned.
C23_ActiveWithinCap ==
    /\ [](Cardinality(ActiveIds(goals)) <= max_active_goals)
    /\ [][(/\ Len(goals') = Len(goals) + 1
           /\ Cardinality(ActiveIds(goals)) >= max_active_goals)
          => Cardinality(Demoted) = 1]_vars

\* a goal was admitted at the cap: one goal is Abandoned, the new goal is
\* Active and the count is at the cap again
C23_Witness ==
    /\ Len(goals) > max_active_goals
    /\ form_result = Len(goals)
    /\ goals[Len(goals)].status = "Active"
    /\ Cardinality(ActiveIds(goals)) = max_active_goals
    /\ \E id \in 1..Len(goals) : goals[id].status = "Abandoned"

\* C24: a form_goal call whose motivation is below goal_formation_threshold
\* returns None and changes nothing of the goal system, at the cap too.
C24_RejectedFormsNothing ==
    [][\A inp \in GoalInputs :
          (/\ calculate_motivation(inp[3], inp[1]) < goal_formation_threshold
           /\ FormGoal(inp[1], inp[2], inp[3]))
          => /\ form_result' = 0
             /\ UNCHANGED <<goals, current_focus, achievement_history>>]_vars

\* a call was refused with the Active count at the cap and a focus set
C24_Witness ==
    /\ form_result = 0
    /\ Cardinality(ActiveIds(goals)) = max_active_goals
    /\ current_focus # 0

-----------------------------------------------------------------------------
(* Claims about the AttentionSystem.                                       *)

AttentionTargets == FreeTargets \cup {QuietTargetNames[i] : i \in 1..6}

\* C25: with max_background_targets targets in the background, a focus_on
\* call that puts one more target there evicts exactly one entry, the entry
\* evicted is of the lowest intensity among those that were there before,
\* and the new target is there afterwards.
C25_EvictsWeakestOfOld ==
    [][\A target \in AttentionTargets, intensity \in FocusIntensities :
          (/\ Cardinality(DOMAIN background_attention) = max_background_targets
           /\ target \notin DOMAIN background_attention
           /\ intensity < focus_threshold
           /\ FocusOn(target, intensity))
          => /\ target \in DOMAIN background_attention'
             /\ Cardinality(DOMAIN background_attention
                            \ DOMAIN background_attention') = 1
             /\ \A gone \in DOMAIN background_attention
                            \ DOMAIN background_attention' :
                    gone \in weakest_targets(background_attention)]_vars

\* C26: the background never holds more than max_background_targets targets.
C26_BackgroundWithinCap ==
    Cardinality(DOMAIN background_attention) <= max_background_targets

-----------------------------------------------------------------------------
(* Claims about the AffectiveCore.                                         *)

InRange(state) ==
    /\ state.valence \in -100..100
    /\ state.arousal \in 0..100
    /\ state.dominance \in -100..100
    /\ state.novelty \in -100..100

\* C27: after every affect mutation (process_emotion, regulate_emotion), in
\* any order and number, valence, dominance and novelty lie in [-1,1] and
\* arousal lies in [0,1], the initial state and the baseline being in range.
C27_AffectInRange ==
    (InRange(baseline_state) /\ mutations > 0) => InRange(current_state)

\* a dimension has been held at its bound by the clamp and then regulated
C27_Witness ==
    /\ emotional_history = <<"Fear", "Fear">>
    /\ mutations = 3
    /\ current_state.arousal = 89
    /\ current_state.dominance = -84

-----------------------------------------------------------------------------
(* Claims about the MetacognitiveMonitor.                                  *)

\* C28: after every metacognition mutation (record_process with any variant
\* and payload, decay_over_time), in any order, each of the seven scalar
\* fields of MetacognitiveState lies in [0,1].
C28_MetacognitionInRange ==
    \A field \in DOMAIN metacog_state : metacog_state[field] \in 0..1000

\* two value conflicts have pushed the load past 1, and a decay has followed
C28_Witness ==
    /\ meta_mutations = 3
    /\ metacog_state.cognitive_load = 950
    /\ metacog_state.reasoning_confidence = 297

-----------------------------------------------------------------------------
(* Claims about the list of pending actions.                               *)

\* what a caller holds between its clear and its return
InHand(c) == IF drain_pc[c] = "cleared" THEN drain_result[c] ELSE <<>>

\* everywhere an action can be: still queued, in a caller's hand, returned
Whereabouts ==
    pending_actions \o InHand("respond") \o InHand("demonstrate")
        \o returned["respond"] \o returned["demonstrate"]

\* C29: get_pending_actions is a draining read: it returns every action
\* queued so far and leaves the list empty, a second call with no push in
\* between returns an empty list, and with concurrent callers each queued
\* action is returned to exactly one caller, none lost and none duplicated.
C29_DrainingRead ==
    /\ \A a \in 1..queued : Occurrences(Whereabouts, a) = 1
    /\ \A c \in Callers :
          /\ drain_pc[c] = "cloned" => drain_result[c] = pending_actions
          /\ drain_pc[c] = "cleared" => pending_actions = <<>>

\* both callers have drained a non-empty list, one call after the other
\* found the list empty with nothing pushed in between, and nothing is left
C29_Witness ==
    /\ queued = 3
    /\ returned["respond"] = <<1, 2>>
    /\ returned["demonstrate"] = <<3>>
    /\ drain_pc["respond"] = "cleared"
    /\ drain_result["respond"] = <<>>
    /\ pending_actions = <<>>

-----------------------------------------------------------------------------
(* Claims about the generation of spontaneous thoughts.                    *)

\* the thoughts loop stores a generated thought
GenerationStep ==
    /\ pc["thoughts"] = "idle" /\ pc'["thoughts"] # "idle"
    /\ inserted' = inserted + 1

\* the thoughts loop leaves the follow-up block of the thought it generated
FollowUpStep ==
    pc["thoughts"] = "follow_up" /\ pc'["thoughts"] = "analyze"

\* C30: every thought produced by spontaneous-thought generation is appended
\* to the Activity Journal, and every such thought that satisfies
\* needs_follow_up at creation results in a related BackgroundTask being added
\* to the scheduler's pending queue, whatever the thought's kind.
C30_GeneratedThoughtFollowedUp ==
    [][/\ GenerationStep =>
            /\ pushed' \in Range(spontaneous_thoughts')
            /\ needs_follow_up(pushed', utc_now) => pc'["thoughts"] = "follow_up"
       /\ FollowUpStep =>
            /\ Len(pending_tasks') = Len(pending_tasks) + 1
            /\ \E i \in 1..Len(pending_tasks') :
                  /\ pending_tasks'[i].at = instant
                  /\ pending_tasks'[i].task.kind \in TaskKinds]_vars

-----------------------------------------------------------------------------
(* Claims about the lifecycle of a goal.                                   *)

TerminalStatuses == {"Completed", "Abandoned", "Failed"}

\* C31: once a goal's status is Completed, Abandoned or Failed it never
\* changes again, and no goal is ever removed from the goal map, under any
\* sequence of form_goal, update_goal_progress and determine_focus; a step
\* that leaves the goal map as long as it was and changes a terminal goal
\* (update_goal_progress on it) leaves the achievement history as it was.
C31_TerminalStatusIsFinal ==
    [][/\ Len(goals') >= Len(goals)
       /\ \A id \in 1..Len(goals) :
             goals[id].status \in TerminalStatuses
             => /\ goals'[id].status = goals[id].status
                /\ goals'[id] # goals[id]
                   => achievement_history' = achievement_history]_vars

-----------------------------------------------------------------------------
(* Claims about error recovery.                                            *)

\* the dispatch tick leaves the handler of an ErrorRecovery task
RecoveryStep ==
    /\ pc["dispatch"] = "handler"
    /\ next_result.task.kind = "ErrorRecovery"
    /\ pc'["dispatch"] # "handler"

\* the dispatch tick leaves a collaborator call that failed
FailureStep ==
    /\ pc["dispatch"] = "llm"
    /\ pc'["dispatch"] # "llm"
    /\ Last(spontaneous_thoughts').intensity = 60

\* C32: dispatching an ErrorRecovery task appends exactly one ErrorRecovery
\* thought to the journal, goes back to the dispatch loop without a
\* collaborator call and without scheduling anything again, and sets
\* error_count to zero; error_count changes in no other way than this reset
\* and the increment by one of a recorded failure.
C32_RecoveryResetsErrorCount ==
    [][/\ RecoveryStep
          => /\ inserted' = inserted + 1
             /\ spontaneous_thoughts' = Append(spontaneous_thoughts, pushed')
             /\ pushed'.thought = "ErrorRecovery"
             /\ pc'["dispatch"] = "loop"
             /\ pending_tasks' = pending_tasks
             /\ error_count' = 0
       /\ error_count' # error_count
          => \/ RecoveryStep /\ error_count' = 0
             \/ FailureStep /\ error_count' = error_count + 1]_vars

C32_Witness ==
    /\ error_count = 0
    /\ inserted > 0
    /\ pushed.thought = "ErrorRecovery"
    /\ pushed.intensity = 80
    /\ \E i \in 1..Len(completed_tasks) : completed_tasks[i].task.kind = "ErrorRecovery"

\* C33: each recorded failure raises error_count by exactly one, stamps
\* last_error_time with the time of the failure and appends its category to
\* error_types, which never holds more than 20 entries: at 20 the oldest is
\* dropped and the others keep their order.
C33_FailureRecorded ==
    [][/\ error_count' = error_count + 1
       /\ last_error_time' = instant'
       /\ Len(error_types') <= max_error_types
       /\ \E e \in LlmErrors :
             error_types' = IF Len(error_types) < max_error_types
                            THEN Append(error_types, e)
                            ELSE Append(Tail(error_types), e)]_vars

C33_Witness ==
    /\ error_count = max_error_types + 2
    /\ Len(error_types) = max_error_types
    /\ error_types[1] = "NetworkError"
    /\ error_types[max_error_types - 1] = "RateLimitExceeded"
    /\ error_types[max_error_types] = "NetworkError"
    /\ last_error_time = instant

-----------------------------------------------------------------------------
(* Claims about the reflection triggers.                                   *)

\* the trigger of a name
TriggerNamed(name) ==
    InitialTriggers[CHOOSE i \in 1..Len(InitialTriggers) : InitialTriggers[i].name = name]

\* how many times a reason stands among the last m entries of a queue
ReasonCount(queue, m, reason) ==
    Cardinality({k \in (Len(queue) - m + 1)..Len(queue) : queue[k] = reason})

\* C34: between two firings of a reflection trigger at least its
\* cooldown_minutes go by, its last_triggered never goes back, and each
\* firing puts exactly one reason of that trigger at the end of the reflection
\* queue, while a trigger that did not fire puts none (the queue dropping its
\* oldest reasons beyond ten).
C34_TriggerCooldown ==
    [][/\ \A name \in TriggerNames :
             /\ reflection_triggers'[name] >= reflection_triggers[name]
             /\ (/\ reflection_triggers'[name] # reflection_triggers[name]
                 /\ reflection_triggers[name] # NeverTriggered)
                => reflection_triggers'[name] - reflection_triggers[name]
                       >= 60 * TriggerNamed(name).cooldown_minutes
       /\ \E m \in 0..(Len(InitialTriggers) + 1) :
             LET kept == Len(reflection_queue') - m
                 lost == Len(reflection_queue) - kept
             IN  /\ kept >= 0 /\ lost >= 0
                 /\ lost > 0 => Len(reflection_queue') = max_reflection_queue
                 /\ SubSeq(reflection_queue', 1, kept)
                        = SubSeq(reflection_queue, lost + 1, Len(reflection_queue))
                 /\ \A name \in TriggerNames :
                       ReasonCount(reflection_queue', m, name)
                           = IF reflection_triggers'[name] # reflection_triggers[name]
                             THEN 1 ELSE 0]_vars

\* the load trigger has fired a second time, ten minutes after the first, and
\* an older reason has left the queue
C34_Witness ==
    /\ reflection_triggers["high_cognitive_load"] = 600
    /\ ReasonCount(reflection_queue, Len(reflection_queue), "high_cognitive_load") = 2
    /\ Len(reflection_queue) = max_reflection_queue
    /\ reflection_queue[1] # "process"

-----------------------------------------------------------------------------
(* Claims about spontaneous-thought selection.                             *)

\* the condition of rule k of the table, on the arguments of a selection
RuleHolds(k, sel) ==
    CASE k = 1 -> sel.metacog.cognitive_load > 800
      [] k = 2 -> sel.metacog.self_awareness_level > 800
      [] k = 3 -> sel.creativity > 70 /\ sel.affect.novelty > 50
      [] k = 4 -> sel.current_goals = 0 /\ sel.social_awareness > 60
      [] k = 5 -> sel.affect.arousal > 70

\* the thought kind rule k returns
RuleThought(k, sel) ==
    CASE k = 1 -> "ErrorRecovery"
      [] k = 2 -> IF sel.affect.valence < -30
                  THEN "EmotionalProcessing" ELSE "SelfReflection"
      [] k = 3 -> "CreativeInsight"
      [] k = 4 -> "ExistentialWondering"
      [] k = 5 -> IF sel.current_goals > 0
                  THEN "GoalReassessment" ELSE "AttentionShift"

\* rule k is the first whose condition holds
FirstMatch(k, sel) ==
    RuleHolds(k, sel) /\ \A j \in 1..(k - 1) : ~RuleHolds(j, sel)

NoRuleMatches(sel) == \A k \in 1..5 : ~RuleHolds(k, sel)

\* C35 as stated: the first rule whose condition holds decides, whatever the
\* later signals are, and when none of rules 1 to 5 holds the thought is one
\* of the kinds of the fallback vector.
C35_FirstMatchThenFallbackSet ==
    selection # NoSelection
    => /\ \A k \in 1..5 :
             FirstMatch(k, selection) => selection.thought = RuleThought(k, selection)
       /\ NoRuleMatches(selection)
          => selection.thought \in Range(FallbackThoughts)

\* C35 (amended): the first rule whose condition holds decides, whatever the
\* later signals are; when none of rules 1 to 5 holds, a sixth rule gives
\* SystemIntegration if social awareness is above 0.5 and a random draw falls
\* below 0.3, and only otherwise is the thought the entry of the fallback
\* vector the random index lands on.
C35_FirstMatchDecides ==
    selection # NoSelection
    => /\ \A k \in 1..5 :
             FirstMatch(k, selection) => selection.thought = RuleThought(k, selection)
       /\ NoRuleMatches(selection)
          => selection.thought =
                IF selection.social_awareness > 50 /\ selection.chance < 300
                THEN "SystemIntegration"
                ELSE FallbackThoughts[selection.pick + 1]

\* the load just above its threshold decides although self-awareness is at
\* its maximum
C35_Witness ==
    /\ selection # NoSelection
    /\ selection.metacog.cognitive_load = 801
    /\ selection.metacog.self_awareness_level = 1000
    /\ selection.affect.arousal = 100
    /\ selection.thought = "ErrorRecovery"

-----------------------------------------------------------------------------
(* Claims about the dispatch tick.                                         *)

\* process_scheduled_tasks returns: get_next_task gave None
TickReturns ==
    /\ pc["dispatch"] = "loop"
    /\ pc'["dispatch"] = "idle"

\* C36: the dispatch tick never has more than one task in running_tasks, and
\* when it returns pending_tasks and running_tasks are empty and every task
\* scheduled so far, whatever its priority, is in completed_tasks.
C36_TickDrainsPending ==
    [][/\ Len(running_tasks') <= 1
       /\ TickReturns
          => /\ pending_tasks' = <<>>
             /\ running_tasks' = <<>>
             /\ lock_holder'["task_scheduler"] = "free"
             /\ Len(completed_tasks') = instant']_vars

\* a tick has returned after a DeepReflection task and, behind it, a health
\* check of lower priority that had been scheduled before it
C36_Witness ==
    /\ pc["dispatch"] = "idle"
    /\ pending_tasks = <<>>
    /\ running_tasks = <<>>
    /\ \E i \in 1..(Len(completed_tasks) - 1) :
          /\ completed_tasks[i].task.kind = "DeepReflection"
          /\ completed_tasks[i + 1].task.kind = "SystemHealthCheck"
          /\ completed_tasks[i].at > completed_tasks[i + 1].at

-----------------------------------------------------------------------------
(* Claims about the follow-up of journal entries.                          *)

\* the follow-up effects process_pending_thoughts has applied to a container
FollowUpsApplied(l, op) ==
    Cardinality({i \in 1..Len(attempts[l]) :
                    /\ attempts[l][i].op = op
                    /\ attempts[l][i].by = "main"
                    /\ attempts[l][i].got})

\* C37: a journal entry is followed up at most once: the follow-up effects
\* applied by process_pending_thoughts (record_process for a SelfReflection
\* entry, determine_focus for a GoalReassessment entry) are never more than
\* the entries of their kind that the journal has received.
C37_FollowedUpOnce ==
    /\ FollowUpsApplied("metacognition", "record_process")
           <= Cardinality({i \in 1..Len(spontaneous_thoughts) :
                              spontaneous_thoughts[i].thought = "SelfReflection"})
    /\ FollowUpsApplied("goal_system", "determine_focus")
           <= Cardinality({i \in 1..Len(spontaneous_thoughts) :
                              spontaneous_thoughts[i].thought = "GoalReassessment"})

-----------------------------------------------------------------------------
(* Claims about memory consolidation.                                      *)

\* the try_lock calls consolidate_memories has made on the affect container
ConsolidationAttempts ==
    {i \in 1..Len(attempts["affective_core"]) :
        attempts["affective_core"][i].by = "consolidation"}

\* C38: last_memory_consolidation moves only when the milestone of the call
\* was recorded in the affect container: the try_lock that the call made was
\* granted.
C38_StampOnlyAfterMilestone ==
    [][last_memory_consolidation' # last_memory_consolidation
       => /\ ConsolidationAttempts # {}
          /\ LET latest == CHOOSE i \in ConsolidationAttempts :
                               \A j \in ConsolidationAttempts : j <= i
             IN  attempts["affective_core"][latest].got]_vars

-----------------------------------------------------------------------------
(* Claims about the goal count of thought generation.                      *)

\* C39: the goal count that thought selection works on is the number of
\* Active goals of the goal system at the time it is read, so that the
\* thought about having no goals is selected only when no goal is Active.
C39_GoalCountIsActiveCount ==
    [][selection' # selection
       => /\ selection'.current_goals = Cardinality(ActiveIds(goals))
          /\ selection'.thought = "ExistentialWondering"
             => ActiveIds(goals) = {}]_vars

-----------------------------------------------------------------------------
(* Claims about primary and background attention.                          *)

\* C40: the target of the primary focus is never a key of the background
\* attention map.
C40_PrimaryNotInBackground ==
    primary_focus # NoFocus
    => primary_focus.target \notin DOMAIN background_attention

=============================================================================
